---- MODULE Spec2Model ----
(***************************************************************************)
(* The Kademlia protocol handler of protocols/kad/src/protocol.rs:         *)
(* the per-substream request loop KadProtocolHandler::handle, the          *)
(* Notifiee hooks connected()/disconnected(), the event sink they share    *)
(* with the upper engine, and the message codec they call.                 *)
(***************************************************************************)
EXTENDS Integers, Sequences, FiniteSets, TLC

(***************************************************************************)
(* Bounds of the model.                                                    *)
(***************************************************************************)
\* substreams accepted by the handler
NumStreams == 2
\* remote peers (connections)
NumPeers == 2
\* frames the transport delivers over all substreams of a run
MaxFrames == 2
\* clock ticks per second (Instant has sub-second resolution)
TicksPerSec == 2
\* entries of a peer list of a message
MaxPeers == 3
\* ticks the clock advances during one conversion
MaxNow == 2

Streams == 1..NumStreams
PeerIds == 1..NumPeers

(***************************************************************************)
(* Option and Result values.                                               *)
(***************************************************************************)
None == <<>>
Some(x) == <<x>>
IsSome(o) == Len(o) = 1
Unwrap(o) == o[1]

Ok(x) == [ok |-> TRUE, val |-> x]
Err(e) == [ok |-> FALSE, err |-> e]

\* io::Error of a given ErrorKind
IoError(k) == [type |-> "io::Error", kind |-> k]
\* io::Error::new(io::ErrorKind::InvalidData, e)
invalid_data == IoError("InvalidData")
\* crate::KadError
KadError(k) == [type |-> "KadError", kind |-> k]
\* futures::channel::mpsc::SendError (receiver gone)
SendError == [type |-> "SendError", kind |-> "Disconnected"]
\* futures::channel::oneshot::Canceled
Canceled == [type |-> "Canceled", kind |-> "Canceled"]

(***************************************************************************)
(* Constants of the program.                                               *)
(***************************************************************************)
DEFAULT_MAX_PACKET_SIZE == 16 * 1024
\* KademliaProtocolConfig::default()
DefaultConfig == [max_packet_size |-> DEFAULT_MAX_PACKET_SIZE]
\* Duration::from_secs(10), in seconds
DefaultIdleTimeout == 10

\* KadProtocolHandler::new
NewHandler(config) ==
    [config |-> config, allow_listening |-> FALSE,
     idle_timeout |-> DefaultIdleTimeout]

(***************************************************************************)
(* Identifier and address types (libp2prs_core): opaque values with a      *)
(* byte form; parsing bytes that are no byte form fails.                   *)
(***************************************************************************)
Addrs == {1, 2}
PeerIdIntoBytes(p) == <<p>>
PeerIdFromBytes(b) ==
    IF Len(b) = 1 /\ b[1] \in PeerIds THEN Ok(b[1]) ELSE Err(IoError("Other"))
MultiaddrToVec(a) == <<a>>
MultiaddrTryFrom(b) ==
    IF Len(b) = 1 /\ b[1] \in Addrs THEN Ok(b[1]) ELSE Err(IoError("Other"))

(***************************************************************************)
(* KadConnectionType and its wire codes.                                   *)
(***************************************************************************)
ConnectionTypes == {"NotConnected", "Connected", "CanConnect", "CannotConnect"}
\* proto::message::ConnectionType::from_i32
ConnectionTypeFromI32(i) ==
    CASE i = 0 -> Some("NotConnected")
      [] i = 1 -> Some("Connected")
      [] i = 2 -> Some("CanConnect")
      [] i = 3 -> Some("CannotConnect")
      [] OTHER -> None
\* ConnectionType as i32
ConnectionTypeAsI32(c) ==
    CASE c = "NotConnected" -> 0
      [] c = "Connected" -> 1
      [] c = "CanConnect" -> 2
      [] c = "CannotConnect" -> 3

(***************************************************************************)
(* KadPeer <-> proto::message::Peer                                        *)
(***************************************************************************)
RECURSIVE ParseAddrsLenient(_)
\* faulty variant: an address that does not parse is left out of the peer
ParseAddrsLenient(bs) ==
    IF bs = <<>> THEN Ok(<<>>)
    ELSE LET a == MultiaddrTryFrom(Head(bs))
             rest == ParseAddrsLenient(Tail(bs))
         IN Ok((IF a.ok THEN <<a.val>> ELSE <<>>) \o rest.val)

RECURSIVE ParseAddrs(_)
\* the loop of try_from over peer.addrs: the first failure is returned
ParseAddrs(bs) ==
    IF bs = <<>> THEN Ok(<<>>)
    ELSE LET a == MultiaddrTryFrom(Head(bs))
         IN IF ~a.ok THEN Err(invalid_data)
            ELSE LET rest == ParseAddrs(Tail(bs))
                 IN IF ~rest.ok THEN rest ELSE Ok(<<a.val>> \o rest.val)

\* impl TryFrom<proto::message::Peer> for KadPeer
KadPeerTryFrom(peer) ==
    LET id == PeerIdFromBytes(peer.id)
        addrs == ParseAddrs(peer.addrs)
        ct == ConnectionTypeFromI32(peer.connection)
    IN IF ~id.ok THEN Err(invalid_data)
       ELSE IF ~addrs.ok THEN Err(invalid_data)
       ELSE IF ~IsSome(ct) THEN Err(invalid_data)
       ELSE Ok([node_id |-> id.val, multiaddrs |-> addrs.val,
                connection_ty |-> Unwrap(ct)])

\* impl Into<proto::message::Peer> for KadPeer
KadPeerInto(p) ==
    [id |-> PeerIdIntoBytes(p.node_id),
     addrs |-> [i \in 1..Len(p.multiaddrs) |-> MultiaddrToVec(p.multiaddrs[i])],
     connection |-> ConnectionTypeAsI32(p.connection_ty)]

(***************************************************************************)
(* proto::Message and proto::Record, with their defaults.                  *)
(***************************************************************************)
PING == 0
PUT_VALUE == 1
GET_VALUE == 2
ADD_PROVIDER == 3
GET_PROVIDERS == 4
FIND_NODE == 5

\* proto::message::MessageType::from_i32
MessageTypeFromI32(i) == IF i \in 0..5 THEN Some(i) ELSE None

DefaultRecord ==
    [key |-> <<>>, value |-> <<>>, publisher |-> <<>>, ttl |-> 0,
     time_received |-> ""]

DefaultMessage ==
    [type |-> PING, key |-> <<>>, record |-> None, cluster_level_raw |-> 0,
     closer_peers |-> <<>>, provider_peers |-> <<>>]

(***************************************************************************)
(* Record <-> proto::Record.  now is Instant::now(), in ticks.             *)
(***************************************************************************)
\* Duration::from_secs
FromSecs(s) == s * TicksPerSec
\* Duration::as_secs
AsSecs(d) == d \div TicksPerSec

record_from_proto(record, now) ==
    LET publisher ==
            IF record.publisher # <<>>
            THEN LET p == PeerIdFromBytes(record.publisher)
                 IN IF p.ok THEN Ok(Some(p.val)) ELSE Err(invalid_data)
            ELSE Ok(None)
        expires ==
            IF record.ttl > 0 THEN Some(now + FromSecs(record.ttl)) ELSE None
    IN IF ~publisher.ok THEN publisher
       ELSE Ok([key |-> record.key, value |-> record.value,
                publisher |-> publisher.val, expires |-> expires])

record_to_proto(record, now) ==
    [key |-> record.key,
     value |-> record.value,
     publisher |-> IF IsSome(record.publisher)
                   THEN PeerIdIntoBytes(Unwrap(record.publisher)) ELSE <<>>,
     ttl |-> IF IsSome(record.expires)
             THEN LET t == Unwrap(record.expires)
                  IN IF t > now THEN AsSecs(t - now) ELSE 1
             ELSE 0,
     time_received |-> ""]

(***************************************************************************)
(* Requests and responses <-> proto::Message                               *)
(***************************************************************************)
\* faulty variant: only the first entry is tried
FindMapPeerFirst(ps) ==
    IF ps = <<>> THEN None
    ELSE LET r == KadPeerTryFrom(Head(ps))
         IN IF r.ok THEN Some(r.val) ELSE None

RECURSIVE FindMapPeer(_)
\* provider_peers.into_iter().find_map(|peer| KadPeer::try_from(peer).ok())
FindMapPeer(ps) ==
    IF ps = <<>> THEN None
    ELSE LET r == KadPeerTryFrom(Head(ps))
         IN IF r.ok THEN Some(r.val) ELSE FindMapPeer(Tail(ps))

RECURSIVE FilterMapPeers(_)
\* peers.into_iter().filter_map(|peer| KadPeer::try_from(peer).ok()).collect()
FilterMapPeers(ps) ==
    IF ps = <<>> THEN <<>>
    ELSE LET r == KadPeerTryFrom(Head(ps))
         IN (IF r.ok THEN <<r.val>> ELSE <<>>) \o FilterMapPeers(Tail(ps))

MapPeersInto(ps) == [i \in 1..Len(ps) |-> KadPeerInto(ps[i])]

\* faulty variant: AddProvider places its provider into closer_peers
req_msg_to_proto_closer(kad_msg, now) ==
    CASE kad_msg.tag = "Ping" ->
            [DefaultMessage EXCEPT !.type = PING]
      [] kad_msg.tag = "FindNode" ->
            [DefaultMessage EXCEPT !.type = FIND_NODE, !.key = kad_msg.key,
                                   !.cluster_level_raw = 10]
      [] kad_msg.tag = "GetProviders" ->
            [DefaultMessage EXCEPT !.type = GET_PROVIDERS, !.key = kad_msg.key,
                                   !.cluster_level_raw = 10]
      [] kad_msg.tag = "AddProvider" ->
            [DefaultMessage EXCEPT !.type = ADD_PROVIDER,
                                   !.cluster_level_raw = 10,
                                   !.key = kad_msg.key,
                                   !.closer_peers = <<KadPeerInto(kad_msg.provider)>>]
      [] kad_msg.tag = "GetValue" ->
            [DefaultMessage EXCEPT !.type = GET_VALUE,
                                   !.cluster_level_raw = 10,
                                   !.key = kad_msg.key]
      [] kad_msg.tag = "PutValue" ->
            [DefaultMessage EXCEPT !.type = PUT_VALUE,
                                   !.record = Some(record_to_proto(kad_msg.record, now))]

req_msg_to_proto(kad_msg, now) ==
    CASE kad_msg.tag = "Ping" ->
            [DefaultMessage EXCEPT !.type = PING]
      [] kad_msg.tag = "FindNode" ->
            [DefaultMessage EXCEPT !.type = FIND_NODE, !.key = kad_msg.key,
                                   !.cluster_level_raw = 10]
      [] kad_msg.tag = "GetProviders" ->
            [DefaultMessage EXCEPT !.type = GET_PROVIDERS, !.key = kad_msg.key,
                                   !.cluster_level_raw = 10]
      [] kad_msg.tag = "AddProvider" ->
            [DefaultMessage EXCEPT !.type = ADD_PROVIDER,
                                   !.cluster_level_raw = 10,
                                   !.key = kad_msg.key,
                                   !.provider_peers = <<KadPeerInto(kad_msg.provider)>>]
      [] kad_msg.tag = "GetValue" ->
            [DefaultMessage EXCEPT !.type = GET_VALUE,
                                   !.cluster_level_raw = 10,
                                   !.key = kad_msg.key]
      [] kad_msg.tag = "PutValue" ->
            [DefaultMessage EXCEPT !.type = PUT_VALUE,
                                   !.record = Some(record_to_proto(kad_msg.record, now))]

\* faulty variant: the PutValue response carries its key in the record only
resp_msg_to_proto_nokey(kad_msg, now) ==
    CASE kad_msg.tag = "Pong" ->
            [DefaultMessage EXCEPT !.type = PING]
      [] kad_msg.tag = "FindNode" ->
            [DefaultMessage EXCEPT !.type = FIND_NODE,
                                   !.cluster_level_raw = 9,
                                   !.closer_peers = MapPeersInto(kad_msg.closer_peers)]
      [] kad_msg.tag = "GetProviders" ->
            [DefaultMessage EXCEPT !.type = GET_PROVIDERS,
                                   !.cluster_level_raw = 9,
                                   !.closer_peers = MapPeersInto(kad_msg.closer_peers),
                                   !.provider_peers = MapPeersInto(kad_msg.provider_peers)]
      [] kad_msg.tag = "GetValue" ->
            [DefaultMessage EXCEPT !.type = GET_VALUE,
                                   !.cluster_level_raw = 9,
                                   !.closer_peers = MapPeersInto(kad_msg.closer_peers),
                                   !.record = IF IsSome(kad_msg.record)
                                              THEN Some(record_to_proto(Unwrap(kad_msg.record), now))
                                              ELSE None]
      [] kad_msg.tag = "PutValue" ->
            [DefaultMessage EXCEPT !.type = PUT_VALUE,
                                   !.record = Some([DefaultRecord EXCEPT
                                                       !.key = kad_msg.key,
                                                       !.value = kad_msg.value])]

resp_msg_to_proto(kad_msg, now) ==
    CASE kad_msg.tag = "Pong" ->
            [DefaultMessage EXCEPT !.type = PING]
      [] kad_msg.tag = "FindNode" ->
            [DefaultMessage EXCEPT !.type = FIND_NODE,
                                   !.cluster_level_raw = 9,
                                   !.closer_peers = MapPeersInto(kad_msg.closer_peers)]
      [] kad_msg.tag = "GetProviders" ->
            [DefaultMessage EXCEPT !.type = GET_PROVIDERS,
                                   !.cluster_level_raw = 9,
                                   !.closer_peers = MapPeersInto(kad_msg.closer_peers),
                                   !.provider_peers = MapPeersInto(kad_msg.provider_peers)]
      [] kad_msg.tag = "GetValue" ->
            [DefaultMessage EXCEPT !.type = GET_VALUE,
                                   !.cluster_level_raw = 9,
                                   !.closer_peers = MapPeersInto(kad_msg.closer_peers),
                                   !.record = IF IsSome(kad_msg.record)
                                              THEN Some(record_to_proto(Unwrap(kad_msg.record), now))
                                              ELSE None]
      [] kad_msg.tag = "PutValue" ->
            [DefaultMessage EXCEPT !.type = PUT_VALUE,
                                   !.key = kad_msg.key,
                                   !.record = Some([DefaultRecord EXCEPT
                                                       !.key = kad_msg.key,
                                                       !.value = kad_msg.value])]

proto_to_req_msg(message, now) ==
    LET msg_type == MessageTypeFromI32(message.type)
    IN IF ~IsSome(msg_type) THEN Err(invalid_data)
       ELSE CASE Unwrap(msg_type) = PING -> Ok([tag |-> "Ping"])
              [] Unwrap(msg_type) = PUT_VALUE ->
                    LET record == record_from_proto(
                                      IF IsSome(message.record)
                                      THEN Unwrap(message.record) ELSE DefaultRecord,
                                      now)
                    IN IF ~record.ok THEN record
                       ELSE Ok([tag |-> "PutValue", record |-> record.val])
              [] Unwrap(msg_type) = GET_VALUE ->
                    Ok([tag |-> "GetValue", key |-> message.key])
              [] Unwrap(msg_type) = FIND_NODE ->
                    Ok([tag |-> "FindNode", key |-> message.key])
              [] Unwrap(msg_type) = GET_PROVIDERS ->
                    Ok([tag |-> "GetProviders", key |-> message.key])
              [] Unwrap(msg_type) = ADD_PROVIDER ->
                    LET provider == FindMapPeer(message.provider_peers)
                    IN IF IsSome(provider)
                       THEN Ok([tag |-> "AddProvider", key |-> message.key,
                                provider |-> Unwrap(provider)])
                       ELSE Err(invalid_data)

\* faulty variant: the key of a PutValue response is taken from its record
proto_to_resp_msg_reckey(message, now) ==
    LET msg_type == MessageTypeFromI32(message.type)
    IN IF ~IsSome(msg_type) THEN Err(invalid_data)
       ELSE CASE Unwrap(msg_type) = PING -> Ok([tag |-> "Pong"])
              [] Unwrap(msg_type) = GET_VALUE ->
                    LET record == IF IsSome(message.record)
                                  THEN record_from_proto(Unwrap(message.record), now)
                                  ELSE Ok(None)
                    IN IF ~record.ok THEN record
                       ELSE Ok([tag |-> "GetValue",
                                record |-> IF IsSome(message.record)
                                           THEN Some(record.val) ELSE None,
                                closer_peers |-> FilterMapPeers(message.closer_peers)])
              [] Unwrap(msg_type) = FIND_NODE ->
                    Ok([tag |-> "FindNode",
                        closer_peers |-> FilterMapPeers(message.closer_peers)])
              [] Unwrap(msg_type) = GET_PROVIDERS ->
                    Ok([tag |-> "GetProviders",
                        closer_peers |-> FilterMapPeers(message.closer_peers),
                        provider_peers |-> FilterMapPeers(message.provider_peers)])
              [] Unwrap(msg_type) = PUT_VALUE ->
                    IF ~IsSome(message.record) THEN Err(invalid_data)
                    ELSE Ok([tag |-> "PutValue", key |-> Unwrap(message.record).key,
                             value |-> Unwrap(message.record).value])
              [] Unwrap(msg_type) = ADD_PROVIDER -> Err(invalid_data)

\* faulty variant: a response other than Pong must carry cluster_level_raw = 9
proto_to_resp_msg_level(message, now) ==
    LET msg_type == MessageTypeFromI32(message.type)
    IN IF ~IsSome(msg_type) THEN Err(invalid_data)
       ELSE IF Unwrap(msg_type) # PING /\ message.cluster_level_raw # 9
       THEN Err(invalid_data)
       ELSE CASE Unwrap(msg_type) = PING -> Ok([tag |-> "Pong"])
              [] Unwrap(msg_type) = GET_VALUE ->
                    LET record == IF IsSome(message.record)
                                  THEN record_from_proto(Unwrap(message.record), now)
                                  ELSE Ok(None)
                    IN IF ~record.ok THEN record
                       ELSE Ok([tag |-> "GetValue",
                                record |-> IF IsSome(message.record)
                                           THEN Some(record.val) ELSE None,
                                closer_peers |-> FilterMapPeers(message.closer_peers)])
              [] Unwrap(msg_type) = FIND_NODE ->
                    Ok([tag |-> "FindNode",
                        closer_peers |-> FilterMapPeers(message.closer_peers)])
              [] Unwrap(msg_type) = GET_PROVIDERS ->
                    Ok([tag |-> "GetProviders",
                        closer_peers |-> FilterMapPeers(message.closer_peers),
                        provider_peers |-> FilterMapPeers(message.provider_peers)])
              [] Unwrap(msg_type) = PUT_VALUE ->
                    IF ~IsSome(message.record) THEN Err(invalid_data)
                    ELSE Ok([tag |-> "PutValue", key |-> message.key,
                             value |-> Unwrap(message.record).value])
              [] Unwrap(msg_type) = ADD_PROVIDER -> Err(invalid_data)

proto_to_resp_msg(message, now) ==
    LET msg_type == MessageTypeFromI32(message.type)
    IN IF ~IsSome(msg_type) THEN Err(invalid_data)
       ELSE CASE Unwrap(msg_type) = PING -> Ok([tag |-> "Pong"])
              [] Unwrap(msg_type) = GET_VALUE ->
                    LET record == IF IsSome(message.record)
                                  THEN record_from_proto(Unwrap(message.record), now)
                                  ELSE Ok(None)
                    IN IF ~record.ok THEN record
                       ELSE Ok([tag |-> "GetValue",
                                record |-> IF IsSome(message.record)
                                           THEN Some(record.val) ELSE None,
                                closer_peers |-> FilterMapPeers(message.closer_peers)])
              [] Unwrap(msg_type) = FIND_NODE ->
                    Ok([tag |-> "FindNode",
                        closer_peers |-> FilterMapPeers(message.closer_peers)])
              [] Unwrap(msg_type) = GET_PROVIDERS ->
                    Ok([tag |-> "GetProviders",
                        closer_peers |-> FilterMapPeers(message.closer_peers),
                        provider_peers |-> FilterMapPeers(message.provider_peers)])
              [] Unwrap(msg_type) = PUT_VALUE ->
                    IF ~IsSome(message.record) THEN Err(invalid_data)
                    ELSE Ok([tag |-> "PutValue", key |-> message.key,
                             value |-> Unwrap(message.record).value])
              [] Unwrap(msg_type) = ADD_PROVIDER -> Err(invalid_data)

(***************************************************************************)
(* Bytes on a substream.  prost's byte format is not modelled: a byte      *)
(* string is either the encoding of one proto::Message or undecodable.     *)
(***************************************************************************)
\* proto_struct.encode(&mut buf)
ProstEncode(m) == [decodes |-> TRUE, msg |-> m]
Garbage == [decodes |-> FALSE, msg |-> DefaultMessage]
\* proto::Message::decode(&packet[..]).map_err(|_| KadError::Decode)
ProstDecode(b) == IF b.decodes THEN Ok(b.msg) ELSE Err(KadError("Decode"))

(***************************************************************************)
(* What the transport hands to one read_one call: a length-delimited       *)
(* frame (its length prefix and its payload), the end of the stream, or    *)
(* an I/O failure.                                                         *)
(***************************************************************************)
Frame(l, b) == [kind |-> "frame", len |-> l, body |-> b]
EndOfStream == [kind |-> "eof", len |-> 0, body |-> Garbage]
IoFailure == [kind |-> "ioerr", len |-> 0, body |-> Garbage]
NoPacket == [kind |-> "none", len |-> 0, body |-> Garbage]

\* ReadEx::read_one(max_size)
ReadOne(tr, max_size) ==
    CASE tr.kind = "eof" -> Err(IoError("UnexpectedEof"))
      [] tr.kind = "ioerr" -> Err(IoError("Other"))
      [] tr.kind = "frame" ->
            IF tr.len > max_size THEN Err(invalid_data) ELSE Ok(tr.body)

\* WriteEx::write2(buf): the bytes become one frame of the substream
Write2(written, buf) == Append(written, buf)

(***************************************************************************)
(* Inputs of the model: the frames a remote sends, the replies of the      *)
(* upper engine.                                                           *)
(***************************************************************************)
Key1 == <<7>>
GoodPeer == [id |-> <<1>>, addrs |-> <<<<1>>>>, connection |-> 1]
\* a peer entry whose id is no peer id
BadPeer == [id |-> <<0>>, addrs |-> <<<<1>>>>, connection |-> 1]
\* a type integer outside 0..5
UnknownType == FIND_NODE + 1

FindNodeFrame == ProstEncode(req_msg_to_proto([tag |-> "FindNode", key |-> Key1], 0))
AddProviderFrame ==
    ProstEncode([DefaultMessage EXCEPT !.type = ADD_PROVIDER, !.key = Key1,
                                       !.cluster_level_raw = 10,
                                       !.provider_peers = <<BadPeer, GoodPeer>>])
NoProviderFrame ==
    ProstEncode([DefaultMessage EXCEPT !.type = ADD_PROVIDER, !.key = Key1,
                                       !.provider_peers = <<BadPeer>>])
UnknownTypeFrame == ProstEncode([DefaultMessage EXCEPT !.type = UnknownType])

ValidBodies == {FindNodeFrame, AddProviderFrame}
InvalidBodies == {Garbage, NoProviderFrame, UnknownTypeFrame}

\* the outcomes of one read_one call on a handler configured with max
TransportOutcomes(max) ==
    {EndOfStream, IoFailure}
    \cup {Frame(max, b) : b \in ValidBodies \cup InvalidBodies}
    \cup {Frame(1, Garbage), Frame(max + 1, FindNodeFrame)}

KadPeer1 == [node_id |-> 1, multiaddrs |-> <<1>>, connection_ty |-> "Connected"]
\* what the engine sends on a reply channel: Result<Option<KadResponseMsg>, KadError>
ReplyValues ==
    {Ok(None),
     Ok(Some([tag |-> "Pong"])),
     Ok(Some([tag |-> "FindNode", closer_peers |-> <<KadPeer1>>])),
     Err(KadError("UnexpectedMessage"))}

(***************************************************************************)
(* State.                                                                  *)
(***************************************************************************)
VARIABLES
    handler,    \* the KadProtocolHandler fields (cloned into every substream task)
    sinkOpen,   \* whether the receiver of message_tx is alive
    events,     \* everything placed on the event sink, in order
    conn,       \* per peer: "none", "up" (connected() called), "down"
    notif,      \* the notification tasks spawned and not yet run
    source,     \* per substream: stream.remote_peer(), 0 before handle is called
    pc,         \* per substream: the position of handle
    packet,     \* per substream: what the last read_one call was given
    recvd,      \* per substream: the payloads read_one returned, in order
    request,    \* per substream: the decoded request of this iteration
    reply,      \* per substream: its reply channels, one per KadRequest
    out,        \* per substream: the frames written to it, in order
    ret,        \* per substream: what handle returned
    now,        \* Instant::now(), in ticks
    sender,     \* one KadMessageSender and the exchange it performs
    codec       \* one conversion through the message codec: value, wire form, value

vars == <<handler, sinkOpen, events, conn, notif, source, pc, packet, recvd,
          request, reply, out, ret, now,
          sender, codec>>

Last(q) == q[Len(q)]

\* the state of a oneshot channel: None while the sender is alive and has
\* not sent, then what rx.await returns
Pending == None
ChannelPending(s) == Len(reply[s]) > 0 /\ Last(reply[s]) = Pending

RECURSIVE SumLen(_, _)
SumLen(f, S) ==
    IF S = {} THEN 0
    ELSE LET x == CHOOSE y \in S : TRUE IN Len(f[x]) + SumLen(f, S \ {x})
\* the frames read so far over all substreams
FramesRead == SumLen(recvd, Streams)

\* KadMessageSender::build: a fresh substream and the configuration
NewSender(config) ==
    [config |-> config, pc |-> "idle", op |-> "", written |-> <<>>,
     packet |-> NoPacket, ret |-> None]

\* no conversion is under way
NoConversion ==
    [kind |-> "none", orig |-> None, t_enc |-> 0, wire |-> None, t_dec |-> 0,
     back |-> None, user_data |-> None, event |-> None]

\* the handler right after KadProtocolHandler::new, nothing accepted yet
InitHandler ==
    /\ handler = NewHandler(DefaultConfig)
    /\ sinkOpen = TRUE
    /\ events = <<>>
    /\ conn = [p \in PeerIds |-> "none"]
    /\ notif = {}
    /\ source = [s \in Streams |-> 0]
    /\ pc = [s \in Streams |-> "idle"]
    /\ packet = [s \in Streams |-> NoPacket]
    /\ recvd = [s \in Streams |-> <<>>]
    /\ request = [s \in Streams |-> None]
    /\ reply = [s \in Streams |-> <<>>]
    /\ out = [s \in Streams |-> <<>>]
    /\ ret = [s \in Streams |-> None]
    /\ now = 0

Init ==
    /\ InitHandler
    /\ sender = NewSender(DefaultConfig)
    /\ codec = NoConversion

(***************************************************************************)
(* Notifiee: connected / disconnected                                      *)
(***************************************************************************)
PeerConnected(p) == [type |-> "PeerConnected", peer |-> p]
PeerDisconnected(p) == [type |-> "PeerDisconnected", peer |-> p]

\* connected(): spawns a task that will send PeerConnected
Connected(p) ==
    /\ conn[p] = "none"
    /\ conn' = [conn EXCEPT ![p] = "up"]
    /\ notif' = notif \cup {PeerConnected(p)}
    /\ UNCHANGED <<handler, sinkOpen, events, source, pc, packet, recvd, request,
                   reply, out, ret, now,
                   sender, codec>>

\* disconnected(): spawns a task that will send PeerDisconnected
Disconnected(p) ==
    /\ conn[p] = "up"
    /\ conn' = [conn EXCEPT ![p] = "down"]
    /\ notif' = notif \cup {PeerDisconnected(p)}
    /\ UNCHANGED <<handler, sinkOpen, events, source, pc, packet, recvd, request,
                   reply, out, ret, now,
                   sender, codec>>

\* faulty variant: the result of the send is not discarded: with the sink
\* closed the send error ends the loops of the peer's substreams
NotifyTaskPropagates(n) ==
    /\ n \in notif
    /\ notif' = notif \ {n}
    /\ IF sinkOpen
       THEN /\ events' = Append(events, n)
            /\ UNCHANGED <<pc, ret>>
       ELSE /\ events' = events
            /\ pc' = [s \in Streams |->
                         IF source[s] = n.peer THEN "done" ELSE pc[s]]
            /\ ret' = [s \in Streams |->
                          IF source[s] = n.peer /\ pc[s] # "done"
                          THEN Some(Err(SendError)) ELSE ret[s]]
    /\ UNCHANGED <<handler, sinkOpen, conn, source, packet, recvd, request,
                   reply, out, now, sender, codec>>

\* the spawned task: let _ = tx.send(evt).await
NotifyTask(n) ==
    /\ n \in notif
    /\ notif' = notif \ {n}
    /\ events' = IF sinkOpen THEN Append(events, n) ELSE events
    /\ UNCHANGED <<handler, sinkOpen, conn, source, pc, packet, recvd, request,
                   reply, out, ret, now,
                   sender, codec>>

(***************************************************************************)
(* ProtocolHandler::handle, one task per substream                         *)
(***************************************************************************)
\* the connection a substream belongs to: stream.remote_peer()
StreamPeer(s) == ((s - 1) % NumPeers) + 1

\* the swarm accepts a substream of an established connection and calls
\* handle: let source = stream.remote_peer()
StreamOpen(s) ==
    /\ pc[s] = "idle"
    /\ conn[StreamPeer(s)] = "up"
    /\ source' = [source EXCEPT ![s] = StreamPeer(s)]
    /\ pc' = [pc EXCEPT ![s] = "read"]
    /\ UNCHANGED <<handler, sinkOpen, events, conn, notif, packet, recvd,
                   request, reply, out, ret, now,
                   sender, codec>>

\* faulty variant: the literal bound of the outbound sender instead of the configuration
ReadCapLiteral(h) == 4096

\* the bound handle passes to read_one
ReadCap(h) == h.config.max_packet_size

\* faulty variant: a frame that does not decode into a request is skipped
HandleReadSkip(tr, h, t) ==
    LET r == ReadOne(tr, ReadCap(h))
    IN IF ~r.ok THEN [next |-> "done", req |-> None, ret |-> Some(Err(r.err))]
       ELSE LET d == ProstDecode(r.val)
            IN IF ~d.ok THEN [next |-> "read", req |-> None, ret |-> None]
               ELSE LET q == proto_to_req_msg(d.val, t)
                    IN IF ~q.ok THEN [next |-> "read", req |-> None, ret |-> None]
                       ELSE [next |-> "send", req |-> Some(q.val), ret |-> None]

\* faulty variant: the end of the stream ends the loop with Ok(())
HandleReadGraceful(tr, h, t) ==
    LET r == ReadOne(tr, ReadCap(h))
    IN IF tr.kind = "eof" THEN [next |-> "done", req |-> None, ret |-> Some(Ok("()"))]
       ELSE IF ~r.ok THEN [next |-> "done", req |-> None, ret |-> Some(Err(r.err))]
       ELSE LET d == ProstDecode(r.val)
            IN IF ~d.ok
               THEN [next |-> "done", req |-> None, ret |-> Some(Err(d.err))]
               ELSE LET q == proto_to_req_msg(d.val, t)
                    IN IF ~q.ok
                       THEN [next |-> "done", req |-> None, ret |-> Some(Err(q.err))]
                       ELSE [next |-> "send", req |-> Some(q.val), ret |-> None]

\* read_one, decode, proto_to_req_msg, each followed by `?`
HandleRead(tr, h, t) ==
    LET r == ReadOne(tr, ReadCap(h))
    IN IF ~r.ok THEN [next |-> "done", req |-> None, ret |-> Some(Err(r.err))]
       ELSE LET d == ProstDecode(r.val)
            IN IF ~d.ok
               THEN [next |-> "done", req |-> None, ret |-> Some(Err(d.err))]
               ELSE LET q == proto_to_req_msg(d.val, t)
                    IN IF ~q.ok
                       THEN [next |-> "done", req |-> None, ret |-> Some(Err(q.err))]
                       ELSE [next |-> "send", req |-> Some(q.val), ret |-> None]

\* faulty variant: an error returned by one handle call stops the handler: no
\* substream reads a frame once another loop has returned
ReadFrameFatal(s) ==
    /\ pc[s] = "read"
    /\ \A o \in Streams : pc[o] # "done"
    /\ FramesRead < MaxFrames
    /\ \E tr \in TransportOutcomes(handler.config.max_packet_size) :
          LET h == HandleRead(tr, handler, now)
          IN /\ packet' = [packet EXCEPT ![s] = tr]
             /\ recvd' = IF ReadOne(tr, ReadCap(handler)).ok
                         THEN [recvd EXCEPT ![s] = Append(@, tr.body)]
                         ELSE recvd
             /\ pc' = [pc EXCEPT ![s] = h.next]
             /\ request' = [request EXCEPT ![s] = h.req]
             /\ ret' = [ret EXCEPT ![s] = h.ret]
    /\ UNCHANGED <<handler, sinkOpen, events, conn, notif, source, reply, out, now,
                   sender, codec>>

\* one iteration's read step of handle on substream s
ReadFrame(s) ==
    /\ pc[s] = "read"
    /\ FramesRead < MaxFrames
    /\ \E tr \in TransportOutcomes(handler.config.max_packet_size) :
          LET h == HandleRead(tr, handler, now)
          IN /\ packet' = [packet EXCEPT ![s] = tr]
             /\ recvd' = IF ReadOne(tr, ReadCap(handler)).ok
                         THEN [recvd EXCEPT ![s] = Append(@, tr.body)]
                         ELSE recvd
             /\ pc' = [pc EXCEPT ![s] = h.next]
             /\ request' = [request EXCEPT ![s] = h.req]
             /\ ret' = [ret EXCEPT ![s] = h.ret]
    /\ UNCHANGED <<handler, sinkOpen, events, conn, notif, source, reply, out, now,
                   sender, codec>>

KadRequest(req, src, ch) ==
    [type |-> "KadRequest", request |-> req, source |-> src, reply |-> ch]

\* faulty variant: the result of the send is ignored: let _ = send(evt).await
SendEventIgnored(s) ==
    /\ pc[s] = "send"
    /\ events' = IF sinkOpen
                 THEN Append(events,
                        KadRequest(Unwrap(request[s]), source[s], <<s, Len(reply[s]) + 1>>))
                 ELSE events
    /\ reply' = [reply EXCEPT ![s] = Append(@, Pending)]
    /\ pc' = [pc EXCEPT ![s] = "await"]
    /\ UNCHANGED <<handler, sinkOpen, conn, notif, source, packet, recvd, request,
                   out, ret, now,
                   sender, codec>>

\* oneshot::channel(), then self.message_tx.send(evt).await?
SendEvent(s) ==
    /\ pc[s] = "send"
    /\ IF sinkOpen
       THEN /\ events' = Append(events,
                   KadRequest(Unwrap(request[s]), source[s], <<s, Len(reply[s]) + 1>>))
            /\ reply' = [reply EXCEPT ![s] = Append(@, Pending)]
            /\ pc' = [pc EXCEPT ![s] = "await"]
            /\ ret' = ret
       ELSE /\ pc' = [pc EXCEPT ![s] = "done"]
            /\ ret' = [ret EXCEPT ![s] = Some(Err(SendError))]
            /\ UNCHANGED <<events, reply>>
    /\ UNCHANGED <<handler, sinkOpen, conn, notif, source, packet, recvd, request,
                   out, now,
                   sender, codec>>

\* faulty variant: the loop does not wait for the reply before the next read
AwaitReplyNoWait(s) ==
    /\ pc[s] = "await"
    /\ pc' = [pc EXCEPT ![s] = "read"]
    /\ UNCHANGED <<handler, sinkOpen, events, conn, notif, source, packet, recvd,
                   request, reply, out, ret, now,
                   sender, codec>>

\* faulty variant: Ok(None) ends the loop with Ok(())
AwaitReplyNoneEnds(s) ==
    /\ pc[s] = "await"
    /\ ~ChannelPending(s)
    /\ LET v == Unwrap(Last(reply[s]))
       IN IF ~v.ok
          THEN /\ pc' = [pc EXCEPT ![s] = "done"]
               /\ ret' = [ret EXCEPT ![s] = Some(Err(v.err))]
          ELSE IF ~v.val.ok
          THEN /\ pc' = [pc EXCEPT ![s] = "done"]
               /\ ret' = [ret EXCEPT ![s] = Some(Err(v.val.err))]
          ELSE IF IsSome(v.val.val)
          THEN /\ pc' = [pc EXCEPT ![s] = "write"]
               /\ ret' = ret
          ELSE /\ pc' = [pc EXCEPT ![s] = "done"]
               /\ ret' = [ret EXCEPT ![s] = Some(Ok("()"))]
    /\ UNCHANGED <<handler, sinkOpen, events, conn, notif, source, packet, recvd,
                   request, reply, out, now,
                   sender, codec>>

\* faulty variant: an Err reply is treated like Ok(None): rx.await? without the second ?
AwaitReplyErrSkipped(s) ==
    /\ pc[s] = "await"
    /\ ~ChannelPending(s)
    /\ LET v == Unwrap(Last(reply[s]))
       IN IF ~v.ok
          THEN /\ pc' = [pc EXCEPT ![s] = "done"]
               /\ ret' = [ret EXCEPT ![s] = Some(Err(v.err))]
          ELSE /\ pc' = [pc EXCEPT ![s] =
                          IF v.val.ok /\ IsSome(v.val.val) THEN "write" ELSE "read"]
               /\ ret' = ret
    /\ UNCHANGED <<handler, sinkOpen, events, conn, notif, source, packet, recvd,
                   request, reply, out, now,
                   sender, codec>>

\* faulty variant: a dropped reply channel is treated like Ok(None): the
\* Canceled of rx.await is discarded and the loop reads on
AwaitReplyCanceledSkipped(s) ==
    /\ pc[s] = "await"
    /\ ~ChannelPending(s)
    /\ LET v == Unwrap(Last(reply[s]))
       IN IF ~v.ok
          THEN /\ pc' = [pc EXCEPT ![s] = "read"]
               /\ ret' = ret
          ELSE IF ~v.val.ok
          THEN /\ pc' = [pc EXCEPT ![s] = "done"]
               /\ ret' = [ret EXCEPT ![s] = Some(Err(v.val.err))]
          ELSE /\ pc' = [pc EXCEPT ![s] = IF IsSome(v.val.val) THEN "write" ELSE "read"]
               /\ ret' = ret
    /\ UNCHANGED <<handler, sinkOpen, events, conn, notif, source, packet, recvd,
                   request, reply, out, now,
                   sender, codec>>

\* faulty variant: the loop goes on only when there is a response to write:
\* on Ok(None) it keeps waiting
AwaitReplyWantsResponse(s) ==
    /\ pc[s] = "await"
    /\ ~ChannelPending(s)
    /\ Unwrap(Last(reply[s])) # Ok(Ok(None))
    /\ LET v == Unwrap(Last(reply[s]))
       IN IF ~v.ok
          THEN /\ pc' = [pc EXCEPT ![s] = "done"]
               /\ ret' = [ret EXCEPT ![s] = Some(Err(v.err))]
          ELSE IF ~v.val.ok
          THEN /\ pc' = [pc EXCEPT ![s] = "done"]
               /\ ret' = [ret EXCEPT ![s] = Some(Err(v.val.err))]
          ELSE /\ pc' = [pc EXCEPT ![s] = "write"]
               /\ ret' = ret
    /\ UNCHANGED <<handler, sinkOpen, events, conn, notif, source, packet, recvd,
                   request, reply, out, now,
                   sender, codec>>

\* rx.await??
AwaitReply(s) ==
    /\ pc[s] = "await"
    /\ ~ChannelPending(s)
    /\ LET v == Unwrap(Last(reply[s]))
       IN IF ~v.ok
          THEN /\ pc' = [pc EXCEPT ![s] = "done"]
               /\ ret' = [ret EXCEPT ![s] = Some(Err(v.err))]
          ELSE IF ~v.val.ok
          THEN /\ pc' = [pc EXCEPT ![s] = "done"]
               /\ ret' = [ret EXCEPT ![s] = Some(Err(v.val.err))]
          ELSE /\ pc' = [pc EXCEPT ![s] = IF IsSome(v.val.val) THEN "write" ELSE "read"]
               /\ ret' = ret
    /\ UNCHANGED <<handler, sinkOpen, events, conn, notif, source, packet, recvd,
                   request, reply, out, now,
                   sender, codec>>

\* whether a channel holds Ok(Some(response))
IsAnswer(c) ==
    /\ c # Pending
    /\ Unwrap(c).ok
    /\ Unwrap(c).val.ok
    /\ IsSome(Unwrap(c).val.val)

RECURSIVE Answers(_)
\* the responses among the replies q, in order
Answers(q) ==
    IF q = <<>> THEN <<>>
    ELSE (IF IsAnswer(Head(q)) THEN <<Unwrap(Unwrap(Head(q)).val.val)>> ELSE <<>>)
         \o Answers(Tail(q))

\* faulty variant: the oldest response of the substream is taken, not this iteration's
ResponseOldest(s) == Head(Answers(reply[s]))

\* the response of this iteration: the Some(response) received from rx
Response(s) == Unwrap(Unwrap(Last(reply[s])).val.val)

\* faulty variant: handle returns Ok(()) after the response is written
WriteResponseOnce(s) ==
    /\ pc[s] = "write"
    /\ \E written \in BOOLEAN :
          IF written
          THEN /\ out' = [out EXCEPT ![s] =
                      Write2(@, ProstEncode(resp_msg_to_proto(Response(s), now)))]
               /\ pc' = [pc EXCEPT ![s] = "done"]
               /\ ret' = [ret EXCEPT ![s] = Some(Ok("()"))]
          ELSE /\ out' = out
               /\ pc' = [pc EXCEPT ![s] = "done"]
               /\ ret' = [ret EXCEPT ![s] = Some(Err(IoError("Other")))]
    /\ UNCHANGED <<handler, sinkOpen, events, conn, notif, source, packet, recvd,
                   request, reply, now,
                   sender, codec>>

\* faulty variant: the response is written to the substream accepted first that
\* is still running, whichever substream the request came from
WriteResponseFirstStream(s) ==
    /\ pc[s] = "write"
    /\ \E written \in BOOLEAN :
          IF written
          THEN /\ LET o == CHOOSE x \in Streams :
                               /\ pc[x] \notin {"idle", "done"}
                               /\ \A y \in Streams :
                                     pc[y] \notin {"idle", "done"} => x <= y
                  IN out' = [out EXCEPT ![o] =
                      Write2(@, ProstEncode(resp_msg_to_proto(Response(s), now)))]
               /\ pc' = [pc EXCEPT ![s] = "read"]
               /\ ret' = ret
          ELSE /\ out' = out
               /\ pc' = [pc EXCEPT ![s] = "done"]
               /\ ret' = [ret EXCEPT ![s] = Some(Err(IoError("Other")))]
    /\ UNCHANGED <<handler, sinkOpen, events, conn, notif, source, packet, recvd,
                   request, reply, now,
                   sender, codec>>

\* resp_msg_to_proto, encode, stream.write2(&buf).await?
WriteResponse(s) ==
    /\ pc[s] = "write"
    /\ \E written \in BOOLEAN :
          IF written
          THEN /\ out' = [out EXCEPT ![s] =
                      Write2(@, ProstEncode(resp_msg_to_proto(Response(s), now)))]
               /\ pc' = [pc EXCEPT ![s] = "read"]
               /\ ret' = ret
          ELSE /\ out' = out
               /\ pc' = [pc EXCEPT ![s] = "done"]
               /\ ret' = [ret EXCEPT ![s] = Some(Err(IoError("Other")))]
    /\ UNCHANGED <<handler, sinkOpen, events, conn, notif, source, packet, recvd,
                   request, reply, now,
                   sender, codec>>

(***************************************************************************)
(* The upper engine: the consumer of the event sink                        *)
(***************************************************************************)
\* reply.send(v)
EngineReply(s, v) ==
    /\ ChannelPending(s)
    /\ reply' = [reply EXCEPT ![s][Len(reply[s])] = Some(Ok(v))]
    /\ UNCHANGED <<handler, sinkOpen, events, conn, notif, source, pc, packet,
                   recvd, request, out, ret, now,
                   sender, codec>>

\* the reply sender is dropped without a send
EngineDrop(s) ==
    /\ ChannelPending(s)
    /\ reply' = [reply EXCEPT ![s][Len(reply[s])] = Some(Err(Canceled))]
    /\ UNCHANGED <<handler, sinkOpen, events, conn, notif, source, pc, packet,
                   recvd, request, out, ret, now,
                   sender, codec>>

\* the receiver of the event sink is dropped
SinkClose ==
    /\ sinkOpen
    /\ sinkOpen' = FALSE
    /\ UNCHANGED <<handler, events, conn, notif, source, pc, packet, recvd,
                   request, reply, out, ret, now,
                   sender, codec>>

Next ==
    \/ \E p \in PeerIds : Connected(p)
    \/ \E n \in notif : NotifyTask(n)
    \/ \E s \in Streams : StreamOpen(s)
    \/ \E s \in Streams : ReadFrame(s)
    \/ \E s \in Streams : SendEvent(s)
    \/ \E s \in Streams : AwaitReply(s)
    \/ \E s \in Streams : WriteResponse(s)
    \/ \E s \in Streams, v \in ReplyValues : EngineReply(s, v)
    \/ \E s \in Streams : EngineDrop(s)
    \/ SinkClose

Spec == Init /\ [][Next]_vars

(***************************************************************************)
(* The handler over the whole life of its connections: connections are     *)
(* also closed, which calls disconnected().  The substream loops go on as  *)
(* in Spec, over one frame less.                                           *)
(***************************************************************************)
LifeNext ==
    \/ \E p \in PeerIds : Connected(p)
    \/ \E p \in PeerIds : Disconnected(p)
    \/ \E n \in notif : NotifyTask(n)
    \/ \E s \in Streams : StreamOpen(s)
    \/ \E s \in Streams : FramesRead < MaxFrames - 1 /\ ReadFrame(s)
    \/ \E s \in Streams : SendEvent(s)
    \/ \E s \in Streams : AwaitReply(s)
    \/ \E s \in Streams : WriteResponse(s)
    \/ \E s \in Streams, v \in ReplyValues : EngineReply(s, v)
    \/ \E s \in Streams : EngineDrop(s)
    \/ SinkClose

LifeSpec == Init /\ [][LifeNext]_vars

(***************************************************************************)
(* The handler while time passes.  handle sets no timer and never reads    *)
(* idle_timeout: a stretch of time in which no peer sends anything changes *)
(* the clock and nothing else.  The clock advances by stretches just       *)
(* longer than idle_timeout; the substream loops go on as in LifeSpec.     *)
(***************************************************************************)
\* stretches of silence the clock advances over
MaxIdlePeriods == 1

\* a stretch of time just longer than the handler's idle_timeout, in ticks
IdlePeriod(h) == FromSecs(h.idle_timeout) + 1

\* nothing arrives on any substream for a stretch of time: every loop stays
\* where it is, the ones at read_one(..).await included
Elapse ==
    /\ now < MaxIdlePeriods * IdlePeriod(handler)
    /\ now' = now + IdlePeriod(handler)
    /\ UNCHANGED <<handler, sinkOpen, events, conn, notif, source, pc, packet,
                   recvd, request, reply, out, ret, sender, codec>>

IdleNext ==
    \/ \E p \in PeerIds : Connected(p)
    \/ \E n \in notif : NotifyTask(n)
    \/ \E s \in Streams : StreamOpen(s)
    \/ \E s \in Streams : FramesRead < MaxFrames - 1 /\ ReadFrame(s)
    \/ \E s \in Streams : SendEvent(s)
    \/ \E s \in Streams : AwaitReply(s)
    \/ \E s \in Streams : WriteResponse(s)
    \/ \E s \in Streams, v \in ReplyValues : EngineReply(s, v)
    \/ \E s \in Streams : EngineDrop(s)
    \/ SinkClose
    \/ Elapse

IdleSpec == Init /\ [][IdleNext]_vars

(***************************************************************************)
(* The handler with a cooperating environment: the event sink stays open,  *)
(* the engine sends only Ok(Some(response)) or Ok(None) (when it sends at  *)
(* all) and every write2 succeeds.  Each substream loop is a task of the   *)
(* async runtime: a task that can make a step is eventually polled, which  *)
(* is weak fairness of the steps of handle that do not wait for the peer.  *)
(* Nothing obliges the peer to send a frame or the engine to reply.        *)
(***************************************************************************)
\* the replies that keep a loop running
GoodReplies == {v \in ReplyValues : v.ok}

\* write2 returns Ok
WriteResponseOk(s) == WriteResponse(s) /\ pc'[s] = "read"

FairNext ==
    \/ \E p \in PeerIds : Connected(p)
    \/ \E n \in notif : NotifyTask(n)
    \/ \E s \in Streams : StreamOpen(s)
    \/ \E s \in Streams : ReadFrame(s)
    \/ \E s \in Streams : SendEvent(s)
    \/ \E s \in Streams : AwaitReply(s)
    \/ \E s \in Streams : WriteResponseOk(s)
    \/ \E s \in Streams, v \in GoodReplies : EngineReply(s, v)

FairSpec ==
    /\ Init
    /\ [][FairNext]_vars
    /\ \A s \in Streams :
          /\ WF_vars(SendEvent(s))
          /\ WF_vars(AwaitReply(s))
          /\ WF_vars(WriteResponseOk(s))

(***************************************************************************)
(* KadMessageSender: one outbound exchange on a substream of its own.      *)
(***************************************************************************)
\* `?` on an io::Error in a function returning KadError: From<io::Error>
KadErrorFromIo(e) ==
    KadError(CASE e.kind = "InvalidData" -> "Io(InvalidData)"
               [] e.kind = "UnexpectedEof" -> "Io(UnexpectedEof)"
               [] OTHER -> "Io(Other)")

\* the literal bound send_request passes to read_one
SenderReadCap == 4096

\* faulty variant: the read of the response is bounded by the configuration
SendRequestReadConfigured(tr, config, t) ==
    LET r == ReadOne(tr, config.max_packet_size)
    IN IF ~r.ok THEN Err(KadErrorFromIo(r.err))
       ELSE LET d == ProstDecode(r.val)
            IN IF ~d.ok THEN Err(d.err)
               ELSE LET m == proto_to_resp_msg(d.val, t)
                    IN IF ~m.ok THEN Err(KadErrorFromIo(m.err)) ELSE Ok(m.val)

\* send_request after the write: read_one(4096), decode, proto_to_resp_msg
SendRequestRead(tr, config, t) ==
    LET r == ReadOne(tr, SenderReadCap)
    IN IF ~r.ok THEN Err(KadErrorFromIo(r.err))
       ELSE LET d == ProstDecode(r.val)
            IN IF ~d.ok THEN Err(d.err)
               ELSE LET m == proto_to_resp_msg(d.val, t)
                    IN IF ~m.ok THEN Err(KadErrorFromIo(m.err)) ELSE Ok(m.val)

\* faulty variant: any response that carries closer_peers is accepted
send_find_node_lenient(rsp) ==
    IF ~rsp.ok THEN rsp
    ELSE IF rsp.val.tag \in {"FindNode", "GetProviders", "GetValue"}
         THEN Ok(rsp.val.closer_peers)
         ELSE Err(KadError("UnexpectedMessage"))

\* send_find_node: the match on the result of send_request(req).await?
send_find_node(rsp) ==
    IF ~rsp.ok THEN rsp
    ELSE IF rsp.val.tag = "FindNode" THEN Ok(rsp.val.closer_peers)
         ELSE Err(KadError("UnexpectedMessage"))

\* send_get_providers
send_get_providers(rsp) ==
    IF ~rsp.ok THEN rsp
    ELSE IF rsp.val.tag = "GetProviders"
         THEN Ok(<<rsp.val.closer_peers, rsp.val.provider_peers>>)
         ELSE Err(KadError("UnexpectedMessage"))

\* send_get_value
send_get_value(rsp) ==
    IF ~rsp.ok THEN rsp
    ELSE IF rsp.val.tag = "GetValue"
         THEN Ok(<<rsp.val.closer_peers, rsp.val.record>>)
         ELSE Err(KadError("UnexpectedMessage"))

SenderOps == {"FindNode", "GetProviders", "GetValue"}

\* the caller sets the configuration the sender is built with
SenderBuild(size) ==
    /\ sender.pc = "idle"
    /\ sender.config.max_packet_size # size
    /\ sender' = NewSender([max_packet_size |-> size])
    /\ UNCHANGED <<handler, sinkOpen, events, conn, notif, source, pc, packet,
                   recvd, request, reply, out, ret, now, codec>>

\* send_request up to the write: req_msg_to_proto, encode, stream.write2(&buf).await?
SenderWrite(op, key) ==
    /\ sender.pc = "idle"
    /\ \E written \in BOOLEAN :
          IF written
          THEN sender' = [sender EXCEPT
                  !.pc = "read", !.op = op,
                  !.written = Write2(@, ProstEncode(
                                  req_msg_to_proto([tag |-> op, key |-> key], now)))]
          ELSE sender' = [sender EXCEPT
                  !.pc = "done", !.op = op,
                  !.ret = Some(Err(KadErrorFromIo(IoError("Other"))))]
    /\ UNCHANGED <<handler, sinkOpen, events, conn, notif, source, pc, packet,
                   recvd, request, reply, out, ret, now, codec>>

\* the rest of send_request and the match of send_find_node,
\* send_get_providers or send_get_value
SenderRead(tr) ==
    /\ sender.pc = "read"
    /\ LET rsp == SendRequestRead(tr, sender.config, now)
       IN sender' = [sender EXCEPT
             !.pc = "done", !.packet = tr,
             !.ret = Some(CASE sender.op = "FindNode" -> send_find_node(rsp)
                            [] sender.op = "GetProviders" -> send_get_providers(rsp)
                            [] sender.op = "GetValue" -> send_get_value(rsp))]
    /\ UNCHANGED <<handler, sinkOpen, events, conn, notif, source, pc, packet,
                   recvd, request, reply, out, ret, now, codec>>

\* inputs of the exchange: the keys asked for, the configured sizes, the
\* responses a remote writes back
SenderKeys == {Key1, <<>>}
SenderSizes == {DEFAULT_MAX_PACKET_SIZE, 1024}
KadPeer2 ==
    [node_id |-> 2, multiaddrs |-> <<2, 1>>, connection_ty |-> "CanConnect"]
Record1 ==
    [key |-> Key1, value |-> <<9>>, publisher |-> Some(1), expires |-> None]
SenderResponses ==
    {[tag |-> "Pong"],
     [tag |-> "FindNode", closer_peers |-> <<>>],
     [tag |-> "FindNode", closer_peers |-> <<KadPeer1, KadPeer2>>],
     [tag |-> "GetProviders", closer_peers |-> <<KadPeer1>>,
      provider_peers |-> <<KadPeer2>>],
     [tag |-> "GetValue", record |-> None, closer_peers |-> <<KadPeer2>>],
     [tag |-> "GetValue", record |-> Some(Record1), closer_peers |-> <<>>],
     [tag |-> "PutValue", key |-> Key1, value |-> <<9>>]}
SenderBodies ==
    {ProstEncode(resp_msg_to_proto(r, 0)) : r \in SenderResponses}
    \cup {Garbage, UnknownTypeFrame, AddProviderFrame,
          ProstEncode([DefaultMessage EXCEPT !.type = FIND_NODE,
                                             !.closer_peers = <<BadPeer, GoodPeer>>])}
SenderOutcomes ==
    {EndOfStream, IoFailure}
    \cup {Frame(l, b) : l \in {SenderReadCap, SenderReadCap + 1, DEFAULT_MAX_PACKET_SIZE},
                        b \in SenderBodies}

SenderNext ==
    \/ \E size \in SenderSizes : SenderBuild(size)
    \/ \E op \in SenderOps, key \in SenderKeys : SenderWrite(op, key)
    \/ \E tr \in SenderOutcomes : SenderRead(tr)

SenderSpec == Init /\ [][SenderNext]_vars

(***************************************************************************)
(* The message codec on its own: a request or a response is converted to   *)
(* its wire form and back, or a wire form received from a remote is        *)
(* converted; every conversion reads the clock when it runs.               *)
(***************************************************************************)
\* inputs: peers, records, requests, responses, wire messages
GoodPeer2 == [id |-> <<2>>, addrs |-> <<<<2>>, <<1>>>>, connection |-> 2]
\* a peer entry whose second address is no address
BadAddrPeer == [id |-> <<1>>, addrs |-> <<<<1>>, <<0>>>>, connection |-> 1]
\* a peer entry whose connection code is no ConnectionType
BadConnPeer == [id |-> <<2>>, addrs |-> <<<<2>>>>, connection |-> 4]
PeerEntries == {GoodPeer, GoodPeer2, BadPeer, BadAddrPeer, BadConnPeer}
PeerEntryLists == UNION {[1..n -> PeerEntries] : n \in 0..MaxPeers}

KadPeer3 == [node_id |-> 1, multiaddrs |-> <<>>, connection_ty |-> "CannotConnect"]
KadPeers == {KadPeer1, KadPeer2, KadPeer3}
KadPeerLists == UNION {[1..n -> KadPeers] : n \in 0..MaxPeers}

CodecKeys == {Key1, <<>>}
\* expiry instants: past, less than a second ahead, whole and broken seconds ahead
ExpiryInstants == 0..(2 * TicksPerSec + 1)
Records ==
    {[key |-> Key1, value |-> <<9>>, publisher |-> pb, expires |-> ex] :
        pb \in {None, Some(1)},
        ex \in {None} \cup {Some(t) : t \in ExpiryInstants}}

Requests ==
    {[tag |-> "Ping"]}
    \cup {[tag |-> tg, key |-> k] :
             tg \in {"FindNode", "GetProviders", "GetValue"}, k \in CodecKeys}
    \cup {[tag |-> "AddProvider", key |-> Key1, provider |-> pr] : pr \in KadPeers}
    \cup {[tag |-> "PutValue", record |-> r] : r \in Records}

Responses ==
    {[tag |-> "Pong"]}
    \cup {[tag |-> "FindNode", closer_peers |-> ps] : ps \in KadPeerLists}
    \cup {[tag |-> "GetProviders", closer_peers |-> ps, provider_peers |-> qs] :
             ps \in KadPeerLists, qs \in {<<>>, <<KadPeer2>>}}
    \cup {[tag |-> "GetValue", record |-> r, closer_peers |-> ps] :
             r \in {None} \cup {Some(x) : x \in Records},
             ps \in {<<>>, <<KadPeer1>>}}
    \cup {[tag |-> "PutValue", key |-> k, value |-> <<9>>] : k \in CodecKeys}

\* wire records: with and without a publisher that parses, with and without ttl
WireRecords ==
    {[DefaultRecord EXCEPT !.key = <<8>>, !.value = <<9>>, !.publisher = pb, !.ttl = tl] :
        pb \in {<<>>, <<1>>, <<0>>}, tl \in {0, 1}}

\* type integers outside 0..5
UnknownTypes == {UnknownType, PING - 1}

\* wire messages a remote sends as requests
WireRequests ==
    {[DefaultMessage EXCEPT !.type = ADD_PROVIDER, !.key = Key1,
                            !.provider_peers = ps] : ps \in PeerEntryLists}
    \cup {[DefaultMessage EXCEPT !.type = ty, !.key = Key1] :
             ty \in {PING, GET_VALUE} \cup UnknownTypes}
    \cup {[DefaultMessage EXCEPT !.type = PUT_VALUE, !.record = r] :
             r \in {None} \cup {Some(x) : x \in WireRecords}}

\* the cluster_level_raw values a remote sends
WireLevels == {0, 9}

\* wire messages a remote sends as responses
WireResponses ==
    {[DefaultMessage EXCEPT !.type = FIND_NODE, !.cluster_level_raw = cl,
                            !.closer_peers = ps] :
         ps \in PeerEntryLists, cl \in WireLevels}
    \cup {[DefaultMessage EXCEPT !.type = GET_PROVIDERS, !.cluster_level_raw = cl,
                                  !.closer_peers = ps, !.provider_peers = qs] :
             ps \in PeerEntryLists,
             qs \in {<<>>, <<BadConnPeer, GoodPeer2>>, <<GoodPeer, BadAddrPeer>>},
             cl \in WireLevels}
    \cup {[DefaultMessage EXCEPT !.type = GET_VALUE, !.cluster_level_raw = cl,
                                  !.closer_peers = ps, !.record = r] :
             ps \in PeerEntryLists,
             r \in {None} \cup {Some(x) : x \in WireRecords},
             cl \in WireLevels}
    \cup {[DefaultMessage EXCEPT !.type = PUT_VALUE, !.cluster_level_raw = cl,
                                  !.key = Key1, !.record = r] :
             r \in {None} \cup {Some(x) : x \in WireRecords},
             cl \in WireLevels}
    \cup {[DefaultMessage EXCEPT !.type = ty, !.cluster_level_raw = cl] :
             ty \in {PING, ADD_PROVIDER} \cup UnknownTypes, cl \in WireLevels}

\* a conversion that starts from a value
FromValue(kind, v) == [NoConversion EXCEPT !.kind = kind, !.orig = Some(v)]
\* a conversion that starts from a wire message
FromWire(kind, m) == [NoConversion EXCEPT !.kind = kind, !.wire = Some(m)]

CodecInit ==
    /\ InitHandler
    /\ sender = NewSender(DefaultConfig)
    /\ codec \in {FromValue("req", v) : v \in Requests}
                 \cup {FromValue("resp", v) : v \in Responses}
                 \cup {FromWire("req", m) : m \in WireRequests}
                 \cup {FromWire("resp", m) : m \in WireResponses}

\* Instant::now() advances
Tick ==
    /\ now < MaxNow
    /\ codec.back = None
    /\ now' = now + 1
    /\ UNCHANGED <<handler, sinkOpen, events, conn, notif, source, pc, packet,
                   recvd, request, reply, out, ret, sender, codec>>

\* req_msg_to_proto(request)
EncodeRequest ==
    /\ codec.kind = "req" /\ IsSome(codec.orig) /\ codec.wire = None
    /\ codec' = [codec EXCEPT !.wire = Some(req_msg_to_proto(Unwrap(codec.orig), now)),
                              !.t_enc = now]
    /\ UNCHANGED <<handler, sinkOpen, events, conn, notif, source, pc, packet,
                   recvd, request, reply, out, ret, now, sender>>

\* resp_msg_to_proto(response)
EncodeResponse ==
    /\ codec.kind = "resp" /\ IsSome(codec.orig) /\ codec.wire = None
    /\ codec' = [codec EXCEPT !.wire = Some(resp_msg_to_proto(Unwrap(codec.orig), now)),
                              !.t_enc = now]
    /\ UNCHANGED <<handler, sinkOpen, events, conn, notif, source, pc, packet,
                   recvd, request, reply, out, ret, now, sender>>

\* proto_to_req_msg(message)
DecodeRequest ==
    /\ codec.kind = "req" /\ IsSome(codec.wire) /\ codec.back = None
    /\ codec' = [codec EXCEPT !.back = Some(proto_to_req_msg(Unwrap(codec.wire), now)),
                              !.t_dec = now]
    /\ UNCHANGED <<handler, sinkOpen, events, conn, notif, source, pc, packet,
                   recvd, request, reply, out, ret, now, sender>>

\* proto_to_resp_msg(message)
DecodeResponse ==
    /\ codec.kind = "resp" /\ IsSome(codec.wire) /\ codec.back = None
    /\ codec' = [codec EXCEPT !.back = Some(proto_to_resp_msg(Unwrap(codec.wire), now)),
                              !.t_dec = now]
    /\ UNCHANGED <<handler, sinkOpen, events, conn, notif, source, pc, packet,
                   recvd, request, reply, out, ret, now, sender>>

\* ProtocolEvent::QueryError
QueryError(error, user_data) ==
    [type |-> "QueryError", error |-> error, user_data |-> user_data]

\* faulty variant: GetRecordRes is built without the record that was found
process_kad_response_norecord(event, user_data) ==
    CASE event.tag = "Pong" ->
            QueryError(KadError("UnexpectedMessage"), user_data)
      [] event.tag = "FindNode" ->
            [type |-> "FindNodeRes", closer_peers |-> event.closer_peers,
             user_data |-> user_data]
      [] event.tag = "GetProviders" ->
            [type |-> "GetProvidersRes", closer_peers |-> event.closer_peers,
             provider_peers |-> event.provider_peers, user_data |-> user_data]
      [] event.tag = "GetValue" ->
            [type |-> "GetRecordRes", record |-> None,
             closer_peers |-> event.closer_peers, user_data |-> user_data]
      [] event.tag = "PutValue" ->
            [type |-> "PutRecordRes", key |-> event.key, value |-> event.value,
             user_data |-> user_data]

\* process_kad_response(event, user_data)
process_kad_response(event, user_data) ==
    CASE event.tag = "Pong" ->
            QueryError(KadError("UnexpectedMessage"), user_data)
      [] event.tag = "FindNode" ->
            [type |-> "FindNodeRes", closer_peers |-> event.closer_peers,
             user_data |-> user_data]
      [] event.tag = "GetProviders" ->
            [type |-> "GetProvidersRes", closer_peers |-> event.closer_peers,
             provider_peers |-> event.provider_peers, user_data |-> user_data]
      [] event.tag = "GetValue" ->
            [type |-> "GetRecordRes", record |-> event.record,
             closer_peers |-> event.closer_peers, user_data |-> user_data]
      [] event.tag = "PutValue" ->
            [type |-> "PutRecordRes", key |-> event.key, value |-> event.value,
             user_data |-> user_data]

\* the tags a caller stamps on its outbound requests
UserData == {11, 12}

\* a decoded response is turned into the event of the caller's request
ProcessResponse(user_data) ==
    /\ codec.kind = "resp" /\ IsSome(codec.back) /\ Unwrap(codec.back).ok
    /\ codec.event = None
    /\ codec' = [codec EXCEPT
          !.user_data = Some(user_data),
          !.event = Some(process_kad_response(Unwrap(codec.back).val, user_data))]
    /\ UNCHANGED <<handler, sinkOpen, events, conn, notif, source, pc, packet,
                   recvd, request, reply, out, ret, now, sender>>

CodecNext ==
    \/ Tick
    \/ EncodeRequest
    \/ EncodeResponse
    \/ DecodeRequest
    \/ DecodeResponse
    \/ \E user_data \in UserData : ProcessResponse(user_data)

CodecSpec == CodecInit /\ [][CodecNext]_vars

(***************************************************************************)
(* Derived views of the state used by the properties.                      *)
(***************************************************************************)
IsRequestOf(s, e) == e.type = "KadRequest" /\ e.reply[1] = s

RECURSIVE RequestsOf(_, _)
\* the KadRequest events of substream s among the events q, in order
RequestsOf(s, q) ==
    IF q = <<>> THEN <<>>
    ELSE (IF IsRequestOf(s, Head(q)) THEN <<Head(q)>> ELSE <<>>)
         \o RequestsOf(s, Tail(q))

\* the reply channels of s on which nothing was sent and whose sender is alive
Unresolved(s) == {i \in 1..Len(reply[s]) : reply[s][i] = Pending}

\* the value the engine sent on the latest reply channel of s, if any
Resolved(s) == Len(reply[s]) > 0 /\ Last(reply[s]) # Pending
Sent(s) == Unwrap(Last(reply[s]))

\* the latest reply channel of s was resolved with this inner value
RepliedWith(s, v) == Resolved(s) /\ Sent(s) = Ok(v)
RepliedSome(s) == Resolved(s) /\ IsAnswer(Last(reply[s]))
RepliedNone(s) == RepliedWith(s, Ok(None))
RepliedErr(s) == Resolved(s) /\ Sent(s).ok /\ ~Sent(s).val.ok

\* a terminated loop does nothing more on its substream
Frozen(s) ==
    /\ pc'[s] = pc[s] /\ ret'[s] = ret[s] /\ recvd'[s] = recvd[s]
    /\ out'[s] = out[s] /\ reply'[s] = reply[s] /\ packet'[s] = packet[s]
    /\ RequestsOf(s, events') = RequestsOf(s, events)

(***************************************************************************)
(* C1: each substream has at most one in-flight request: at most one of    *)
(* its reply channels is unresolved, that one is the channel of its        *)
(* latest KadRequest, and while it is unresolved the loop sits at the      *)
(* await: it neither reads a frame nor emits an event.                     *)
(***************************************************************************)
C1_OneInFlight ==
    \A s \in Streams :
        /\ Cardinality(Unresolved(s)) <= 1
        /\ Unresolved(s) # {} => (Unresolved(s) = {Len(reply[s])} /\ pc[s] = "await")
        /\ Len(RequestsOf(s, events)) = Len(reply[s])

\* a second request of a substream is in flight after its first was resolved
C1_Witness ==
    \E s \in Streams : Len(reply[s]) = 2 /\ ChannelPending(s) /\ pc[s] = "await"

(***************************************************************************)
(* C2: on one substream the KadRequest events are the decoded frames in    *)
(* the order the frames were read, and the frames written back are the     *)
(* encodings of the responses in the order of the requests they answer.    *)
(***************************************************************************)
C2_InOrder ==
    \A s \in Streams :
        LET ev == RequestsOf(s, events)
            ans == Answers(reply[s])
        IN /\ Len(ev) <= Len(recvd[s])
           /\ \A i \in 1..Len(ev) :
                 /\ ev[i].reply = <<s, i>>
                 /\ \E t \in 0..now :
                       Ok(ev[i].request) =
                           proto_to_req_msg(ProstDecode(recvd[s][i]).val, t)
           /\ Len(out[s]) <= Len(ans)
           /\ \A k \in 1..Len(out[s]) :
                 \E t \in 0..now :
                     out[s][k] = ProstEncode(resp_msg_to_proto(ans[k], t))

\* two different requests of one substream were answered by two different
\* responses, both written
C2_Witness ==
    \E s \in Streams :
        /\ Len(out[s]) = 2 /\ out[s][1] # out[s][2]
        /\ Len(recvd[s]) = 2 /\ recvd[s][1] # recvd[s][2]

(***************************************************************************)
(* C3 as claimed: once the reply is Ok(Some(resp)) the loop leaves the     *)
(* write step only by having written the one frame encoding resp and       *)
(* being back at the read step.                                            *)
(***************************************************************************)
C3_AlwaysWritten ==
    [][\A s \in Streams :
          (pc[s] = "write" /\ pc'[s] # "write") =>
              /\ pc'[s] = "read"
              /\ \E t \in 0..now :
                    out'[s] = Append(out[s], ProstEncode(resp_msg_to_proto(Response(s), t)))
      ]_vars

(***************************************************************************)
(* C3 amended: once the reply is Ok(Some(resp)) the loop goes to the       *)
(* write step; it leaves it either with exactly one frame, the encoding    *)
(* of resp, appended to its own substream, nothing written to another      *)
(* substream, and the loop back at the read step, or, when the write       *)
(* fails, with nothing written and handle returning the I/O error.         *)
(***************************************************************************)
C3_WriteThenRead ==
    [][\A s \in Streams :
          /\ (pc[s] = "await" /\ RepliedSome(s) /\ pc'[s] # "await") =>
                (pc'[s] = "write" /\ out' = out /\ ret' = ret)
          /\ (pc[s] = "write" /\ pc'[s] # "write") =>
                /\ RepliedSome(s)
                /\ \A o \in Streams \ {s} : out'[o] = out[o]
                /\ \/ /\ pc'[s] = "read"
                      /\ ret'[s] = None
                      /\ \E t \in 0..now :
                            out'[s] = Append(out[s],
                                ProstEncode(resp_msg_to_proto(Response(s), t)))
                   \/ /\ pc'[s] = "done"
                      /\ ret'[s] = Some(Err(IoError("Other")))
                      /\ out'[s] = out[s]
      ]_vars

\* a response was written and the loop is back at the read step
C3_Witness ==
    \E s \in Streams :
        /\ pc[s] = "read" /\ RepliedSome(s)
        /\ Len(out[s]) = 1
        /\ out[s][1] = ProstEncode(resp_msg_to_proto(Response(s), now))

(***************************************************************************)
(* C4: when the reply is Ok(None) the loop writes nothing for the request  *)
(* and goes back to the read step, handle not returning.                   *)
(***************************************************************************)
C4_NoneSkipsWrite ==
    [][\A s \in Streams :
          (pc[s] = "await" /\ RepliedNone(s) /\ pc'[s] # "await") =>
              (pc'[s] = "read" /\ ret'[s] = None /\ out' = out)
      ]_vars

\* a request was answered Ok(None): the loop is reading again, nothing written
C4_Witness ==
    \E s \in Streams :
        pc[s] = "read" /\ RepliedNone(s) /\ out[s] = <<>> /\ ret[s] = None

(***************************************************************************)
(* C5: when the reply is Err(e), handle returns Err(e): no frame is        *)
(* written for the request, no further frame is read and no further        *)
(* event is emitted for the substream.                                     *)
(***************************************************************************)
C5_ErrReplyReturned ==
    \A s \in Streams :
        (RepliedErr(s) /\ pc[s] # "await") =>
            /\ pc[s] = "done"
            /\ ret[s] = Some(Err(Sent(s).val.err))
            /\ Len(recvd[s]) = Len(reply[s])
            /\ Len(RequestsOf(s, events)) = Len(reply[s])
            /\ Len(out[s]) = Len(Answers(reply[s]))

\* handle has returned the error the engine replied with
C5_Witness ==
    \E s \in Streams :
        /\ pc[s] = "done" /\ RepliedErr(s)
        /\ ret[s] = Some(Err(KadError("UnexpectedMessage")))

(***************************************************************************)
(* C6: with the event sink closed, the step that sends the KadRequest      *)
(* event of a decoded request ends the loop with the send error: no        *)
(* event is placed, no reply channel is waited on, nothing is written,     *)
(* and the terminated loop reads no further frame.                         *)
(***************************************************************************)
C6_ClosedSinkEnds ==
    [][\A s \in Streams :
          /\ (pc[s] = "send" /\ ~sinkOpen /\ pc'[s] # "send") =>
                /\ pc'[s] = "done"
                /\ ret'[s] = Some(Err(SendError))
                /\ events' = events /\ reply' = reply /\ out' = out
                /\ recvd' = recvd
          /\ (pc[s] = "done" /\ ret[s] = Some(Err(SendError))) => Frozen(s)
      ]_vars

\* a loop decoded a request and was ended by the closed sink
C6_Witness ==
    \E s \in Streams :
        /\ ~sinkOpen /\ pc[s] = "done" /\ ret[s] = Some(Err(SendError))
        /\ IsSome(request[s])
        /\ Len(recvd[s]) = 2 /\ Len(reply[s]) = 1

(***************************************************************************)
(* C7: a frame longer than max_packet_size ends the loop with an error     *)
(* and no KadRequest event for it; a frame of at most max_packet_size      *)
(* bytes is returned by the read step.                                     *)
(***************************************************************************)
C7_SizeLimit ==
    \A s \in Streams :
        packet[s].kind = "frame" =>
            IF packet[s].len > handler.config.max_packet_size
            THEN /\ pc[s] = "done"
                 /\ ret[s] = Some(Err(invalid_data))
                 /\ Len(recvd[s]) = Len(reply[s])
                 /\ Len(RequestsOf(s, events)) = Len(reply[s])
            ELSE /\ Len(recvd[s]) > 0
                 /\ Last(recvd[s]) = packet[s].body

\* one substream was ended by an oversize frame, another one accepted a
\* frame of exactly max_packet_size bytes
C7_Witness ==
    \E s, o \in Streams :
        /\ packet[s].kind = "frame"
        /\ packet[s].len = handler.config.max_packet_size + 1
        /\ pc[s] = "done"
        /\ packet[o].kind = "frame"
        /\ packet[o].len = handler.config.max_packet_size
        /\ pc[o] = "await"

(***************************************************************************)
(* C8: a frame that does not decode into a request (undecodable bytes,     *)
(* unknown type, AddProvider without a valid peer) ends the loop with      *)
(* the decode error; no KadRequest event is emitted and no frame is        *)
(* written for it.                                                         *)
(***************************************************************************)
DecodeOf(b, t) ==
    LET d == ProstDecode(b)
    IN IF ~d.ok THEN d ELSE proto_to_req_msg(d.val, t)

C8_DecodeFailureEnds ==
    \A s \in Streams :
        (/\ packet[s].kind = "frame"
         /\ packet[s].len <= handler.config.max_packet_size
         /\ \A t \in 0..now : ~DecodeOf(packet[s].body, t).ok) =>
            /\ pc[s] = "done"
            /\ ret[s] = Some(Err(DecodeOf(packet[s].body, now).err))
            /\ Len(reply[s]) = Len(recvd[s]) - 1
            /\ Len(RequestsOf(s, events)) = Len(reply[s])
            /\ Len(out[s]) <= Len(Answers(reply[s]))

\* the second frame of a substream did not decode and ended its loop
C8_Witness ==
    \E s \in Streams :
        /\ pc[s] = "done"
        /\ packet[s].kind = "frame"
        /\ packet[s].body \in InvalidBodies
        /\ Len(recvd[s]) = 2

(***************************************************************************)
(* C9 as claimed: when the read step reports the end of the stream,        *)
(* handle returns success.                                                 *)
(***************************************************************************)
C9_EofReturnsOk ==
    \A s \in Streams :
        (pc[s] = "done" /\ packet[s].kind = "eof") =>
            (IsSome(ret[s]) /\ Unwrap(ret[s]).ok)

(***************************************************************************)
(* C9 amended: when the read step reports the end of the stream the loop   *)
(* ends with handle returning that read error, with no event and no        *)
(* frame for it; handle has no success return, so an oversize frame and    *)
(* an I/O error end it with an error as well.                              *)
(***************************************************************************)
C9_EofReturnsErr ==
    \A s \in Streams :
        /\ packet[s].kind = "eof" =>
              /\ pc[s] = "done"
              /\ ret[s] = Some(Err(IoError("UnexpectedEof")))
              /\ Len(recvd[s]) = Len(reply[s])
              /\ Len(RequestsOf(s, events)) = Len(reply[s])
        /\ packet[s].kind = "ioerr" =>
              (pc[s] = "done" /\ ret[s] = Some(Err(IoError("Other"))))
        /\ (packet[s].kind = "frame"
              /\ packet[s].len > handler.config.max_packet_size) =>
              (pc[s] = "done" /\ ret[s] = Some(Err(invalid_data)))
        /\ pc[s] = "done" <=> IsSome(ret[s])
        /\ IsSome(ret[s]) => ~Unwrap(ret[s]).ok

\* a loop that served a request was ended by the end of the stream
C9_Witness ==
    \E s \in Streams :
        /\ pc[s] = "done" /\ packet[s].kind = "eof"
        /\ Len(recvd[s]) = 1 /\ Len(out[s]) = 1

(***************************************************************************)
(* C10: PeerConnected(p) is placed on the event sink before any            *)
(* KadRequest event whose source is p.                                     *)
(***************************************************************************)
C10_ConnectedFirst ==
    \A i \in 1..Len(events) :
        events[i].type = "KadRequest" =>
            \E j \in 1..(i - 1) : events[j] = PeerConnected(events[i].source)

(***************************************************************************)
(* C11: an error that ends the loop of one substream leaves the loops of   *)
(* the other substreams running: whatever step another loop is at (read,   *)
(* send, await with a resolved reply, write) it can take it, a loop ends   *)
(* only for a cause of its own substream (its read, its frame, its send,   *)
(* its reply, its write), and the step that ends one loop changes nothing  *)
(* of another substream.                                                   *)
(***************************************************************************)
\* handle on s returned an error that s itself gave rise to
OwnCause(s) ==
    LET max == handler.config.max_packet_size
    IN /\ IsSome(ret[s]) /\ ~Unwrap(ret[s]).ok
       /\ LET e == Unwrap(ret[s]).err
          IN \/ /\ packet[s].kind # "none"
                /\ ~ReadOne(packet[s], max).ok
                /\ e = ReadOne(packet[s], max).err
             \/ /\ packet[s].kind = "frame" /\ packet[s].len <= max
                /\ \E t \in 0..now : /\ ~DecodeOf(packet[s].body, t).ok
                                      /\ e = DecodeOf(packet[s].body, t).err
             \/ /\ ~sinkOpen /\ IsSome(request[s]) /\ e = SendError
             \/ /\ Resolved(s) /\ ~Sent(s).ok /\ e = Sent(s).err
             \/ /\ RepliedErr(s) /\ e = Sent(s).val.err
             \/ /\ RepliedSome(s) /\ e = IoError("Other")

C11_OthersKeepRunning ==
    /\ [](\A s \in Streams : pc[s] = "done" =>
             /\ OwnCause(s)
             /\ \A o \in Streams \ {s} :
                   /\ (pc[o] = "read" /\ FramesRead < MaxFrames) => ENABLED ReadFrame(o)
                   /\ pc[o] = "send" => ENABLED SendEvent(o)
                   /\ (pc[o] = "await" /\ Resolved(o)) => ENABLED AwaitReply(o)
                   /\ pc[o] = "write" => ENABLED WriteResponse(o))
    /\ [][\A s \in Streams :
            (pc[s] # "done" /\ pc'[s] = "done") =>
                \A o \in Streams \ {s} :
                    /\ pc'[o] = pc[o] /\ ret'[o] = ret[o] /\ recvd'[o] = recvd[o]
                    /\ out'[o] = out[o] /\ reply'[o] = reply[o]
                    /\ request'[o] = request[o]
                    /\ RequestsOf(o, events') = RequestsOf(o, events)
       ]_vars

\* one loop was ended by an oversize frame while another one has served a
\* request, is back at its read step and can read again
C11_Witness ==
    \E s, o \in Streams :
        /\ s # o
        /\ pc[s] = "done" /\ ret[s] = Some(Err(invalid_data))
        /\ pc[o] = "read" /\ Len(out[o]) = 1 /\ FramesRead < MaxFrames
        /\ ENABLED ReadFrame(o)

(***************************************************************************)
(* C12: connected() and disconnected() return at once, having only handed  *)
(* the PeerConnected / PeerDisconnected event of the connection's peer to  *)
(* a spawned task: nothing is placed on the sink by the call itself.  The  *)
(* task places the event when the sink is open and drops it when the sink  *)
(* is closed; in both cases the handler's fields and every substream       *)
(* loop (position, result, frames, replies) are as before.                 *)
(***************************************************************************)
LoopsUntouched ==
    /\ handler' = handler /\ pc' = pc /\ ret' = ret /\ source' = source
    /\ packet' = packet /\ recvd' = recvd /\ request' = request
    /\ reply' = reply /\ out' = out /\ sinkOpen' = sinkOpen

C12_FireAndForget ==
    [][/\ \A p \in PeerIds :
             conn'[p] # conn[p] =>
                 /\ events' = events
                 /\ notif' = notif \cup
                       {IF conn'[p] = "up" THEN PeerConnected(p) ELSE PeerDisconnected(p)}
                 /\ LoopsUntouched
       /\ \A n \in notif :
             n \notin notif' =>
                 /\ events' = IF sinkOpen THEN Append(events, n) ELSE events
                 /\ conn' = conn
                 /\ LoopsUntouched
      ]_vars

\* the sink was closed before the notifications of a peer were delivered:
\* both were dropped, and a loop of that peer is still running
C12_Witness ==
    \E p \in PeerIds, s \in Streams :
        /\ ~sinkOpen /\ conn[p] = "down" /\ notif = {}
        /\ \A i \in 1..Len(events) :
              events[i] # PeerConnected(p) /\ events[i] # PeerDisconnected(p)
        /\ source[s] = p /\ pc[s] \in {"read", "await"}
        /\ handler = NewHandler(DefaultConfig)

(***************************************************************************)
(* C13: when the response frame of an exchange decodes into a response,    *)
(* send_find_node, send_get_providers and send_get_value return success    *)
(* exactly when the response has the variant of the request, and then      *)
(* the fields of that response as decoded; any other variant, Pong and     *)
(* PutValue included, gives the error UnexpectedMessage.                   *)
(***************************************************************************)
\* the response the frame read by the sender decodes into
SenderDecoded ==
    LET d == ProstDecode(sender.packet.body)
    IN IF ~d.ok THEN d ELSE proto_to_resp_msg(d.val, now)

\* the sender has read a frame within its bound that decodes into a response
SenderGotResponse ==
    /\ sender.pc = "done"
    /\ sender.packet.kind = "frame"
    /\ sender.packet.len <= SenderReadCap
    /\ SenderDecoded.ok

C13_VariantMatch ==
    SenderGotResponse =>
        LET rsp == SenderDecoded.val
        IN sender.ret = Some(
              IF rsp.tag # sender.op THEN Err(KadError("UnexpectedMessage"))
              ELSE CASE sender.op = "FindNode" -> Ok(rsp.closer_peers)
                     [] sender.op = "GetProviders" ->
                            Ok(<<rsp.closer_peers, rsp.provider_peers>>)
                     [] sender.op = "GetValue" ->
                            Ok(<<rsp.closer_peers, rsp.record>>))

\* a FindNode request was answered with a PutValue response
C13_Witness ==
    /\ SenderGotResponse
    /\ sender.op = "FindNode"
    /\ SenderDecoded.val.tag = "PutValue"
    /\ sender.ret = Some(Err(KadError("UnexpectedMessage")))

(***************************************************************************)
(* C14: the sender reads its response with the bound 4096 whatever its     *)
(* configured max_packet_size: a response frame longer than 4096 bytes     *)
(* makes the exchange fail, also when max_packet_size is larger than the   *)
(* frame, and a well-formed response of at most 4096 bytes is not          *)
(* refused for its size, also when max_packet_size is smaller.             *)
(***************************************************************************)
C14_FixedReadCap ==
    (sender.pc = "done" /\ sender.packet.kind = "frame") =>
        IF sender.packet.len > SenderReadCap
        THEN sender.ret = Some(Err(KadErrorFromIo(invalid_data)))
        ELSE SenderDecoded.ok => sender.ret # Some(Err(KadErrorFromIo(invalid_data)))

\* a response of 4097 bytes was refused by a sender configured with 16 KiB
C14_Witness ==
    /\ sender.pc = "done" /\ sender.packet.kind = "frame"
    /\ sender.packet.len = SenderReadCap + 1
    /\ sender.config.max_packet_size = DEFAULT_MAX_PACKET_SIZE
    /\ sender.packet.len < sender.config.max_packet_size
    /\ SenderDecoded.ok /\ SenderDecoded.val.tag = sender.op
    /\ sender.ret = Some(Err(KadErrorFromIo(invalid_data)))

(***************************************************************************)
(* Views of a conversion used by the codec properties.                     *)
(***************************************************************************)
\* a value of the given kind was converted to its wire form and back
RoundTrip(kind) ==
    /\ codec.kind = kind /\ IsSome(codec.orig)
    /\ IsSome(codec.wire) /\ IsSome(codec.back)
\* a wire message of the given kind received from a remote was converted
Received(kind) ==
    /\ codec.kind = kind /\ codec.orig = None
    /\ IsSome(codec.wire) /\ IsSome(codec.back)

\* the expiry a record comes back with when it was encoded at t_enc with
\* expiry ex and decoded at t_dec: the seconds left at encoding are cut to
\* whole seconds (a past expiry counts as one second) and added to t_dec,
\* and no whole second left means no expiry
ExpiryBack(ex, t_enc, t_dec) ==
    IF ex = None THEN None
    ELSE LET t == Unwrap(ex)
             secs == IF t > t_enc THEN (t - t_enc) \div TicksPerSec ELSE 1
         IN IF secs > 0 THEN Some(t_dec + secs * TicksPerSec) ELSE None

RecordBack(r, t_enc, t_dec) ==
    [r EXCEPT !.expires = ExpiryBack(r.expires, t_enc, t_dec)]

(***************************************************************************)
(* C15 as claimed: every request, a PutValue of any record included,       *)
(* converted to its wire form and back gives the request itself.           *)
(***************************************************************************)
C15_RequestRoundTrip ==
    RoundTrip("req") => Unwrap(codec.back) = Ok(Unwrap(codec.orig))

(***************************************************************************)
(* C15 amended: every request converted to its wire form and back          *)
(* succeeds; the result is the request itself for Ping, FindNode,          *)
(* GetProviders, AddProvider, GetValue and a PutValue whose record has no  *)
(* expiry; for a PutValue whose record has an expiry the result has the    *)
(* record's key, value and publisher, and as expiry the decoding instant   *)
(* plus the whole seconds that were left at encoding (one second for a     *)
(* past expiry), or no expiry when less than one second was left.          *)
(***************************************************************************)
C15_RequestRoundTripButExpiry ==
    RoundTrip("req") =>
        LET r == Unwrap(codec.orig)
            b == Unwrap(codec.back)
        IN /\ b.ok
           /\ IF r.tag = "PutValue"
              THEN b.val = [tag |-> "PutValue",
                            record |-> RecordBack(r.record, codec.t_enc, codec.t_dec)]
              ELSE b.val = r

\* a PutValue whose record has a publisher and an expiry one and a half
\* seconds ahead came back with another expiry
C15_Witness ==
    /\ RoundTrip("req")
    /\ Unwrap(codec.orig).tag = "PutValue"
    /\ IsSome(Unwrap(codec.orig).record.publisher)
    /\ Unwrap(codec.orig).record.expires = Some(codec.t_enc + TicksPerSec + 1)
    /\ Unwrap(codec.back).ok
    /\ Unwrap(codec.back).val.record.publisher = Unwrap(codec.orig).record.publisher
    /\ Unwrap(codec.back).val.record.expires = Some(codec.t_dec + TicksPerSec)
    /\ Unwrap(codec.back).val # Unwrap(codec.orig)

(***************************************************************************)
(* C16 as claimed: every response, a GetValue with any record included,    *)
(* converted to its wire form and back gives the response itself.          *)
(***************************************************************************)
C16_ResponseRoundTrip ==
    RoundTrip("resp") => Unwrap(codec.back) = Ok(Unwrap(codec.orig))

(***************************************************************************)
(* C16 amended: every response converted to its wire form and back         *)
(* succeeds; the result is the response itself for Pong, FindNode,         *)
(* GetProviders, PutValue and a GetValue whose record is absent or has no  *)
(* expiry; for a GetValue whose record has an expiry the result has the    *)
(* same closer_peers and the record's key, value and publisher, and as     *)
(* expiry the decoding instant plus the whole seconds that were left at    *)
(* encoding (one second for a past expiry), or no expiry when less than    *)
(* one second was left.                                                    *)
(***************************************************************************)
C16_ResponseRoundTripButExpiry ==
    RoundTrip("resp") =>
        LET r == Unwrap(codec.orig)
            b == Unwrap(codec.back)
        IN /\ b.ok
           /\ IF r.tag = "GetValue" /\ IsSome(r.record)
              THEN b.val = [r EXCEPT !.record =
                              Some(RecordBack(Unwrap(r.record), codec.t_enc, codec.t_dec))]
              ELSE b.val = r

\* a GetValue response whose record had expired when it was encoded came
\* back, decoded later, with a record that expires one second after the decoding
C16_Witness ==
    /\ RoundTrip("resp")
    /\ Unwrap(codec.orig).tag = "GetValue"
    /\ IsSome(Unwrap(codec.orig).record)
    /\ Unwrap(Unwrap(codec.orig).record).expires = Some(0)
    /\ codec.t_dec > codec.t_enc
    /\ Unwrap(codec.back).ok
    /\ Unwrap(Unwrap(codec.back).val.record).expires = Some(codec.t_dec + TicksPerSec)
    /\ Unwrap(codec.back).val.closer_peers = Unwrap(codec.orig).closer_peers
    /\ Unwrap(codec.orig).closer_peers # <<>>

(***************************************************************************)
(* C17: every request encoded by req_msg_to_proto, of each of the six      *)
(* variants, has cluster_level_raw = 10.                                   *)
(***************************************************************************)
C17_RequestLevel10 ==
    (codec.kind = "req" /\ IsSome(codec.orig) /\ IsSome(codec.wire)) =>
        Unwrap(codec.wire).cluster_level_raw = 10

(***************************************************************************)
(* C18: every response encoded by resp_msg_to_proto other than Pong        *)
(* (FindNode, GetProviders, GetValue, PutValue) has cluster_level_raw = 9. *)
(***************************************************************************)
C18_ResponseLevel9 ==
    (/\ codec.kind = "resp" /\ IsSome(codec.orig) /\ IsSome(codec.wire)
     /\ Unwrap(codec.orig).tag # "Pong") =>
        Unwrap(codec.wire).cluster_level_raw = 9

(***************************************************************************)
(* What a peer entry of a wire message is, stated on the entry's fields.   *)
(***************************************************************************)
\* the id, every address and the connection code of the entry are valid
EntryValid(e) ==
    /\ Len(e.id) = 1 /\ e.id[1] \in PeerIds
    /\ \A i \in 1..Len(e.addrs) : Len(e.addrs[i]) = 1 /\ e.addrs[i][1] \in Addrs
    /\ \E c \in ConnectionTypes : ConnectionTypeAsI32(c) = e.connection
\* the KadPeer a valid entry stands for
EntryPeer(e) ==
    [node_id |-> e.id[1],
     multiaddrs |-> [i \in 1..Len(e.addrs) |-> e.addrs[i][1]],
     connection_ty |-> CHOOSE c \in ConnectionTypes : ConnectionTypeAsI32(c) = e.connection]
\* the peers of the valid entries of a list, in the order of the list
ValidPeers(ps) ==
    LET v == SelectSeq(ps, EntryValid)
    IN [i \in 1..Len(v) |-> EntryPeer(v[i])]

(***************************************************************************)
(* C19: decoding an AddProvider request gives the first entry of           *)
(* provider_peers that parses as a KadPeer, whatever comes before it       *)
(* (entries that do not parse) and after it; with no entry that parses,    *)
(* an empty list included, decoding fails with an InvalidData error.       *)
(***************************************************************************)
C19_FirstValidProvider ==
    (/\ codec.kind = "req" /\ IsSome(codec.wire) /\ IsSome(codec.back)
     /\ Unwrap(codec.wire).type = ADD_PROVIDER) =>
        LET m == Unwrap(codec.wire)
            v == ValidPeers(m.provider_peers)
        IN Unwrap(codec.back) =
              IF v = <<>> THEN Err(invalid_data)
              ELSE Ok([tag |-> "AddProvider", key |-> m.key, provider |-> v[1]])

\* the provider is the second of three entries: the first does not parse,
\* the third parses as well
C19_Witness ==
    /\ Received("req")
    /\ Unwrap(codec.wire).type = ADD_PROVIDER
    /\ Unwrap(codec.wire).provider_peers = <<BadPeer, GoodPeer2, GoodPeer>>
    /\ Unwrap(codec.back) =
          Ok([tag |-> "AddProvider", key |-> Key1, provider |-> KadPeer2])

(***************************************************************************)
(* C20: decoding a FindNode, GetProviders or GetValue response does not    *)
(* fail because of a peer entry: a FindNode or GetProviders response       *)
(* always decodes, a GetValue response unless its record does not, and     *)
(* each decoded peer list is the peers of the valid entries of the wire    *)
(* list, in order, an entry being valid exactly when its id, all of its    *)
(* addresses and its connection code are.                                  *)
(***************************************************************************)
C20_TolerantPeerLists ==
    (/\ codec.kind = "resp" /\ IsSome(codec.wire) /\ IsSome(codec.back)
     /\ Unwrap(codec.wire).type \in {FIND_NODE, GET_PROVIDERS, GET_VALUE}) =>
        LET m == Unwrap(codec.wire)
            b == Unwrap(codec.back)
            rec == IF IsSome(m.record)
                   THEN record_from_proto(Unwrap(m.record), codec.t_dec)
                   ELSE Ok(None)
        IN /\ b.ok <=> (m.type = GET_VALUE => rec.ok)
           /\ b.ok =>
                 /\ b.val.closer_peers = ValidPeers(m.closer_peers)
                 /\ m.type = GET_PROVIDERS =>
                       b.val.provider_peers = ValidPeers(m.provider_peers)
                 /\ b.val.tag = CASE m.type = FIND_NODE -> "FindNode"
                                  [] m.type = GET_PROVIDERS -> "GetProviders"
                                  [] m.type = GET_VALUE -> "GetValue"

\* a FindNode response with an entry whose second address is invalid
\* between two valid entries decoded into the two valid peers
C20_Witness ==
    /\ Received("resp")
    /\ Unwrap(codec.wire).type = FIND_NODE
    /\ Unwrap(codec.wire).closer_peers = <<GoodPeer, BadAddrPeer, GoodPeer2>>
    /\ Unwrap(codec.back) =
          Ok([tag |-> "FindNode", closer_peers |-> <<KadPeer1, KadPeer2>>])

(***************************************************************************)
(* C21: decoding a PutValue-typed response fails with an InvalidData       *)
(* error when the message has no record; with a record the result is       *)
(* PutValue{key, value}, key being the top-level key of the message and    *)
(* value the value of the record, whatever key, publisher and ttl the      *)
(* record has.                                                             *)
(***************************************************************************)
C21_PutValueResponse ==
    (/\ codec.kind = "resp" /\ IsSome(codec.wire) /\ IsSome(codec.back)
     /\ Unwrap(codec.wire).type = PUT_VALUE) =>
        LET m == Unwrap(codec.wire)
        IN Unwrap(codec.back) =
              IF m.record = None THEN Err(invalid_data)
              ELSE Ok([tag |-> "PutValue", key |-> m.key,
                       value |-> Unwrap(m.record).value])

\* a PutValue response whose record has another key, a publisher that is
\* no peer id and a ttl decoded into the top-level key and the record's value
C21_Witness ==
    /\ Received("resp")
    /\ Unwrap(codec.wire).type = PUT_VALUE
    /\ Unwrap(codec.wire).key = Key1
    /\ IsSome(Unwrap(codec.wire).record)
    /\ Unwrap(Unwrap(codec.wire).record).key # Key1
    /\ ~PeerIdFromBytes(Unwrap(Unwrap(codec.wire).record).publisher).ok
    /\ Unwrap(Unwrap(codec.wire).record).ttl > 0
    /\ Unwrap(codec.back) = Ok([tag |-> "PutValue", key |-> Key1, value |-> <<9>>])

(***************************************************************************)
(* C22: a wire message whose type integer is outside 0..5 fails decoding   *)
(* with an InvalidData error as a request and as a response; a message of  *)
(* type AddProvider fails decoding as a response; for the other types      *)
(* the result of decoding a response is the same whatever the message's    *)
(* cluster_level_raw is: Ping, FindNode and GetProviders decode, GetValue  *)
(* decodes unless its record does not, PutValue unless it has no record.   *)
(***************************************************************************)
C22_TypeDecides ==
    (codec.kind \in {"req", "resp"} /\ IsSome(codec.wire) /\ IsSome(codec.back)) =>
        LET m == Unwrap(codec.wire)
            b == Unwrap(codec.back)
        IN /\ m.type \notin PING..FIND_NODE => b = Err(invalid_data)
           /\ (codec.kind = "resp" /\ m.type = ADD_PROVIDER) => b = Err(invalid_data)
           /\ (codec.kind = "resp" /\ m.type \in (PING..FIND_NODE) \ {ADD_PROVIDER}) =>
                 /\ \A cl \in WireLevels \cup {10} :
                       b = proto_to_resp_msg([m EXCEPT !.cluster_level_raw = cl],
                                             codec.t_dec)
                 /\ b.ok <=>
                       CASE m.type = GET_VALUE ->
                               (IsSome(m.record) =>
                                   record_from_proto(Unwrap(m.record), codec.t_dec).ok)
                         [] m.type = PUT_VALUE -> IsSome(m.record)
                         [] OTHER -> TRUE

\* a response whose type integer is above 5 was refused although it
\* carries the cluster_level_raw of a response
C22_Witness ==
    /\ Received("resp")
    /\ Unwrap(codec.wire).type = UnknownType
    /\ Unwrap(codec.wire).cluster_level_raw = 9
    /\ Unwrap(codec.back) = Err(invalid_data)

(***************************************************************************)
(* C23: record_to_proto gives ttl = 0 exactly for a record without         *)
(* expiry: no expiry gives 0, an expiry that is past gives 1, an expiry    *)
(* at any later instant, less than one second ahead included, gives a      *)
(* ttl of at least 1.                                                      *)
(***************************************************************************)
C23_TtlZeroIffNoExpiry ==
    (/\ codec.kind = "req" /\ IsSome(codec.orig) /\ IsSome(codec.wire)
     /\ Unwrap(codec.orig).tag = "PutValue") =>
        LET ex == Unwrap(codec.orig).record.expires
            ttl == Unwrap(Unwrap(codec.wire).record).ttl
        IN /\ ttl = 0 <=> ex = None
           /\ (IsSome(ex) /\ Unwrap(ex) <= codec.t_enc) => ttl = 1
           /\ (IsSome(ex) /\ Unwrap(ex) > codec.t_enc) => ttl >= 1

(***************************************************************************)
(* C24: process_kad_response returns, for a FindNode, GetProviders,        *)
(* GetValue and PutValue response, the event FindNodeRes,                  *)
(* GetProvidersRes, GetRecordRes and PutRecordRes with the fields of the   *)
(* response, and for Pong a QueryError with an UnexpectedMessage error;    *)
(* the event carries the user_data it was called with.                     *)
(***************************************************************************)
C24_EventOfResponse ==
    IsSome(codec.event) =>
        LET r == Unwrap(codec.back).val
            e == Unwrap(codec.event)
        IN /\ IsSome(codec.user_data) /\ e.user_data = Unwrap(codec.user_data)
           /\ e.type = CASE r.tag = "Pong" -> "QueryError"
                          [] r.tag = "FindNode" -> "FindNodeRes"
                          [] r.tag = "GetProviders" -> "GetProvidersRes"
                          [] r.tag = "GetValue" -> "GetRecordRes"
                          [] r.tag = "PutValue" -> "PutRecordRes"
           /\ r.tag = "Pong" => e.error = KadError("UnexpectedMessage")
           /\ r.tag \in {"FindNode", "GetProviders", "GetValue"} =>
                 e.closer_peers = r.closer_peers
           /\ r.tag = "GetProviders" => e.provider_peers = r.provider_peers
           /\ r.tag = "GetValue" => e.record = r.record
           /\ r.tag = "PutValue" => (e.key = r.key /\ e.value = r.value)
           /\ DOMAIN e = (DOMAIN r \ {"tag"}) \cup {"type", "user_data"}
                             \cup (IF r.tag = "Pong" THEN {"error"} ELSE {})

\* a GetValue response with a record and a peer became a GetRecordRes
\* carrying the second of the caller's tags
C24_Witness ==
    /\ IsSome(codec.event)
    /\ Unwrap(codec.event).type = "GetRecordRes"
    /\ IsSome(Unwrap(codec.event).record)
    /\ Unwrap(codec.event).closer_peers # <<>>
    /\ Unwrap(codec.event).user_data = 12

(***************************************************************************)
(* C25: a substream on which no frame arrives for idle_timeout is closed   *)
(* by the handler: over a stretch of more than idle_timeout in which a     *)
(* loop at the read step receives nothing, the loop ends.                  *)
(***************************************************************************)
C25_IdleSubstreamClosed ==
    [][\A s \in Streams :
          (/\ pc[s] = "read"
           /\ recvd'[s] = recvd[s]
           /\ now' - now > FromSecs(handler.idle_timeout)) => pc'[s] = "done"]_vars

(***************************************************************************)
(* C26: while allow_listening is false the handler denies incoming         *)
(* requests: no KadRequest event is on the event sink.                     *)
(***************************************************************************)
C26_DeniesWhenNotListening ==
    ~handler.allow_listening =>
        \A i \in 1..Len(events) : events[i].type # "KadRequest"

(***************************************************************************)
(* C27: when the engine dropped the reply channel of a request without     *)
(* sending on it, the loop of that substream is at the await or has        *)
(* returned Err(Canceled); no frame was written for that request and no    *)
(* frame was read after the one of that request.                           *)
(***************************************************************************)
Dropped(s) == Resolved(s) /\ Sent(s) = Err(Canceled)

C27_DroppedChannelEndsLoop ==
    \A s \in Streams :
        Dropped(s) =>
            /\ pc[s] \in {"await", "done"}
            /\ pc[s] = "done" => ret[s] = Some(Err(Canceled))
            /\ Len(recvd[s]) = Len(reply[s])
            /\ Len(out[s]) = Len(Answers(reply[s]))
            /\ request[s] = Some(Last(RequestsOf(s, events)).request)

\* the second request of a substream was dropped after its first was
\* answered and written: the loop returned Err(Canceled) with one frame written
C27_Witness ==
    \E s \in Streams :
        /\ Dropped(s) /\ Len(reply[s]) = 2
        /\ pc[s] = "done" /\ ret[s] = Some(Err(Canceled))
        /\ Len(out[s]) = 1 /\ Len(recvd[s]) = 2

(***************************************************************************)
(* C28: with the sink open, good replies only and successful writes, a     *)
(* substream whose reply channels are all eventually resolved returns to   *)
(* the read step after every valid request frame it read; and as long as   *)
(* a reply channel stays neither resolved nor dropped, the loop stays at    *)
(* the await of that request.                                              *)
(***************************************************************************)
C28_RepliedLoopReadsOn ==
    /\ \A s \in Streams :
          (ChannelPending(s) ~> ~ChannelPending(s)) =>
              ((pc[s] = "send") ~> (pc[s] = "read"))
    /\ [][\A s \in Streams :
            (ChannelPending(s) /\ ChannelPending(s)') =>
                (pc[s] = "await" /\ pc'[s] = "await" /\ out'[s] = out[s]
                 /\ recvd'[s] = recvd[s])]_vars

\* a substream is back at the read step after two requests, one answered
\* with a response that was written, the other with Ok(None)
C28_Witness ==
    \E s \in Streams :
        /\ pc[s] = "read" /\ Len(reply[s]) = 2 /\ ~ChannelPending(s)
        /\ Len(out[s]) = 1
        /\ \E i \in 1..2 : reply[s][i] = Some(Ok(Ok(None)))

(***************************************************************************)
(* C29: with several substreams on one event sink, every KadRequest event  *)
(* carries the remote peer of the substream its frame was read from and a  *)
(* reply channel of its own, and the frames written to a substream are     *)
(* the responses sent on the reply channels of that substream's own        *)
(* requests, each written at most once.                                    *)
(***************************************************************************)
KadRequests == {i \in 1..Len(events) : events[i].type = "KadRequest"}

C29_RepliesStayOnTheirSubstream ==
    /\ \A i \in KadRequests :
          LET e == events[i]
              s == e.reply[1]
          IN /\ s \in Streams
             /\ e.source = StreamPeer(s) /\ e.source = source[s]
             /\ e.reply[2] \in 1..Len(reply[s])
             /\ \E t \in 0..now :
                   Ok(e.request) =
                       proto_to_req_msg(ProstDecode(recvd[s][e.reply[2]]).val, t)
             /\ \A j \in KadRequests : events[j].reply = e.reply => j = i
    /\ \A s \in Streams :
          /\ Len(out[s]) <= Len(Answers(reply[s]))
          /\ Len(out[s]) >= Len(Answers(reply[s])) - 1
          /\ \A k \in 1..Len(out[s]) :
                \E t \in 0..now :
                    out[s][k] = ProstEncode(resp_msg_to_proto(Answers(reply[s])[k], t))

\* two substreams of two peers are each back at the read step, each with
\* the response to its own request written, the two responses different
C29_Witness ==
    \E s, o \in Streams :
        /\ StreamPeer(s) # StreamPeer(o)
        /\ pc[s] = "read" /\ pc[o] = "read"
        /\ Len(out[s]) = 1 /\ Len(out[o]) = 1 /\ out[s] # out[o]
        /\ \E i, j \in KadRequests :
              /\ events[i].reply = <<s, 1>> /\ events[i].source = StreamPeer(s)
              /\ events[j].reply = <<o, 1>> /\ events[j].source = StreamPeer(o)

====
